---- MODULE Spec2Model ----
(***************************************************************************)
(* Model of the SteamCMD client of steam-workshop-downloader               *)
(* (package steamcmd): the retried download calls DownloadWorkshopItem     *)
(* and DownloadWorkshopItemWithAuth, the output classifier parseOutput     *)
(* and the retry policy isRetryableError.                                  *)
(*                                                                         *)
(* Text is modelled at character level: a Go string is a sequence of       *)
(* one-character strings, so that regular-expression search, substring     *)
(* search, lower-casing and formatting are computed, not assumed.          *)
(***************************************************************************)
EXTENDS Integers, Sequences, FiniteSets, TLC

\* ------------------------------------------------------------------ text

\* strings.Contains / regexp literals: lit occurs in s at position i
IsPrefixAt(lit, s, i) ==
    /\ i + Len(lit) - 1 <= Len(s)
    /\ \A k \in 1..Len(lit) : s[i + k - 1] = lit[k]

\* strings.Contains(s, sub)
Contains(s, sub) ==
    \E i \in 1..(Len(s) - Len(sub) + 1) : IsPrefixAt(sub, s, i)

\* the lower-case letter of each upper-case ASCII letter
LowerOf ==
    ("A" :> "a") @@ ("B" :> "b") @@ ("C" :> "c") @@ ("D" :> "d") @@ ("E" :> "e") @@
    ("F" :> "f") @@ ("G" :> "g") @@ ("H" :> "h") @@ ("I" :> "i") @@ ("J" :> "j") @@
    ("K" :> "k") @@ ("L" :> "l") @@ ("M" :> "m") @@ ("N" :> "n") @@ ("O" :> "o") @@
    ("P" :> "p") @@ ("Q" :> "q") @@ ("R" :> "r") @@ ("S" :> "s") @@ ("T" :> "t") @@
    ("U" :> "u") @@ ("V" :> "v") @@ ("W" :> "w") @@ ("X" :> "x") @@ ("Y" :> "y") @@
    ("Z" :> "z")

\* strings.ToLower on the (ASCII) texts of the model
ToLower(s) ==
    [i \in 1..Len(s) |-> IF s[i] \in DOMAIN LowerOf THEN LowerOf[s[i]] ELSE s[i]]

Digits == {"0", "1", "2", "3", "4", "5", "6", "7", "8", "9"}

\* the character classes of the three expressions: \d, [^"], [^)]
InClass(class, c) ==
    CASE class = "digit" -> c \in Digits
      [] class = "notquote" -> c # "\""
      [] class = "notparen" -> c # ")"

\* end (exclusive) of the longest run of class characters of s from pos
RunEnd(s, pos, class) ==
    CHOOSE e \in pos..(Len(s) + 1) :
        /\ \A m \in pos..(e - 1) : InClass(class, s[m])
        /\ (e = Len(s) + 1 \/ ~InClass(class, s[e]))

NoMatch == [ok |-> FALSE, groups |-> <<>>]

Lit(text) == [kind |-> "lit", text |-> text]

Plus(class) == [kind |-> "plus", class |-> class]

\* A match of elements k.. of expression re in s at pos. Every (class)+ group
\* of the three expressions is followed by a literal whose first character is
\* outside the class, so the greedy run is the only candidate and the match
\* never backtracks.
RECURSIVE MatchFrom(_, _, _, _)
MatchFrom(re, k, s, pos) ==
    IF k > Len(re) THEN [ok |-> TRUE, groups |-> <<>>]
    ELSE IF re[k].kind = "lit"
    THEN IF IsPrefixAt(re[k].text, s, pos)
         THEN MatchFrom(re, k + 1, s, pos + Len(re[k].text))
         ELSE NoMatch
    ELSE LET e == RunEnd(s, pos, re[k].class)
             rest == MatchFrom(re, k + 1, s, e)
         IN  IF e > pos /\ rest.ok
             THEN [ok |-> TRUE, groups |-> <<SubSeq(s, pos, e - 1)>> \o rest.groups]
             ELSE NoMatch

\* the first match of re in s at a start position from i on
RECURSIVE FindFrom(_, _, _)
FindFrom(re, s, i) ==
    IF i > Len(s) THEN NoMatch
    ELSE IF MatchFrom(re, 1, s, i).ok THEN MatchFrom(re, 1, s, i)
    ELSE FindFrom(re, s, i + 1)

\* regexp.FindStringSubmatch: the leftmost match; groups[i] is matches[i]
FindStringSubmatch(re, s) == FindFrom(re, s, 1)

successRegex ==
    << Lit(<<"S","u","c","c","e","s","s","."," ","D","o","w","n","l","o","a","d","e","d"," ","i","t","e","m"," ">>), Plus("digit"), Lit(<<" ","t","o"," ","\"">>),
       Plus("notquote"), Lit(<<"\""," ","(">>), Plus("digit"), Lit(<<" ","b","y","t","e","s",")">>) >>

downloadFailureRegex ==
    << Lit(<<"E","R","R","O","R","!"," ","D","o","w","n","l","o","a","d"," ","i","t","e","m"," ">>), Plus("digit"), Lit(<<" ","f","a","i","l","e","d"," ","(">>),
       Plus("notparen"), Lit(<<")">>) >>

loginFailureRegex ==
    << Lit(<<"F","A","I","L","E","D"," ","(">>), Plus("notparen"), Lit(<<")">>) >>

\* ------------------------------------------------------------- integers

\* An int64 is held as its canonical decimal numeral (no leading zero), as
\* the values at the edge of the 64-bit range are where parsing fails.
MaxInt64 == <<"9","2","2","3","3","7","2","0","3","6","8","5","4","7","7","5","8","0","7">>

Int64Zero == <<"0">>

StripZeros(d) ==
    LET nz == {i \in 1..Len(d) : d[i] # "0"}
    IN  IF nz = {} THEN Int64Zero
        ELSE SubSeq(d, CHOOSE i \in nz : \A j \in nz : i <= j, Len(d))

DigitValue(c) == CHOOSE v \in 0..9 : ToString(v) = c

\* a <= b for two numerals of the same length
NumeralLeq(a, b) ==
    \/ a = b
    \/ \E i \in 1..Len(a) :
          /\ \A j \in 1..(i - 1) : a[j] = b[j]
          /\ DigitValue(a[i]) < DigitValue(b[i])

\* strconv.ParseInt(s, 10, 64) for a non-negative digit string or any other
\* text: an error for a non-digit, the empty string or a value out of range
ParseInt(s) ==
    LET c == StripZeros(s)
    IN  IF s = <<>> \/ \E i \in 1..Len(s) : s[i] \notin Digits
        THEN [ok |-> FALSE, val |-> Int64Zero]
        ELSE IF Len(c) < Len(MaxInt64) \/ (Len(c) = Len(MaxInt64) /\ NumeralLeq(c, MaxInt64))
        THEN [ok |-> TRUE, val |-> c]
        ELSE [ok |-> FALSE, val |-> Int64Zero]

\* ---------------------------------------------------------------- errors

Nil == [kind |-> "nil", retryable |-> FALSE, msg |-> <<>>]

\* fmt.Errorf(...)
Errorf(msg) == [kind |-> "error", retryable |-> FALSE, msg |-> msg]

\* retry.RetryableError(fmt.Errorf(...))
RetryableError(msg) == [kind |-> "error", retryable |-> TRUE, msg |-> msg]

\* ----------------------------------------------------------- parseOutput

MsgUnknown == <<"U","n","k","n","o","w","n"," ","e","r","r","o","r"," ","o","c","c","u","r","r","e","d">>

PfxDownloadFailed == <<"D","o","w","n","l","o","a","d"," ","f","a","i","l","e","d",":"," ">>

PfxLoginFailed == <<"L","o","g","i","n"," ","f","a","i","l","e","d",":"," ">>

PfxUnhandled == <<"u","n","h","a","n","d","l","e","d"," ","S","t","e","a","m","C","M","D"," ","o","u","t","p","u","t",":"," ">>

\* the outcome parseOutput selects for an output, in its order of checks
Classify(output) ==
    IF FindStringSubmatch(successRegex, output).ok THEN "Success"
    ELSE IF FindStringSubmatch(downloadFailureRegex, output).ok THEN "DownloadFailure"
    ELSE IF FindStringSubmatch(loginFailureRegex, output).ok THEN "LoginFailure"
    ELSE "Unknown"

\* parseBranches with the login failure checked before the download failure
parseBranchesLoginFirst(ms, md, ml, output, item) ==
    IF ms.ok
    THEN [item |-> [item EXCEPT !.Success = TRUE,
                                !.PathToFile = ms.groups[2],
                                !.SizeBytes = IF ParseInt(ms.groups[3]).ok
                                              THEN ParseInt(ms.groups[3]).val
                                              ELSE @],
          err |-> Nil]
    ELSE IF ml.ok
    THEN [item |-> [item EXCEPT !.Success = FALSE,
                                !.ErrorMsg = PfxLoginFailed \o ml.groups[1]],
          err |-> Nil]
    ELSE IF md.ok
    THEN [item |-> [item EXCEPT !.Success = FALSE,
                                !.ErrorMsg = PfxDownloadFailed \o md.groups[2]],
          err |-> Nil]
    ELSE [item |-> [item EXCEPT !.Success = FALSE, !.ErrorMsg = MsgUnknown],
          err |-> Errorf(PfxUnhandled \o output)]

\* parseBranches reporting success only when the byte count parses
parseBranchesSuccessNeedsSize(ms, md, ml, output, item) ==
    IF ms.ok
    THEN [item |-> [item EXCEPT !.Success = ParseInt(ms.groups[3]).ok,
                                !.PathToFile = ms.groups[2],
                                !.SizeBytes = IF ParseInt(ms.groups[3]).ok
                                              THEN ParseInt(ms.groups[3]).val
                                              ELSE @],
          err |-> Nil]
    ELSE IF md.ok
    THEN [item |-> [item EXCEPT !.Success = FALSE,
                                !.ErrorMsg = PfxDownloadFailed \o md.groups[2]],
          err |-> Nil]
    ELSE IF ml.ok
    THEN [item |-> [item EXCEPT !.Success = FALSE,
                                !.ErrorMsg = PfxLoginFailed \o ml.groups[1]],
          err |-> Nil]
    ELSE [item |-> [item EXCEPT !.Success = FALSE, !.ErrorMsg = MsgUnknown],
          err |-> Errorf(PfxUnhandled \o output)]

\* parseBranches taking the path from matches[1], the item id
parseBranchesPathFromId(ms, md, ml, output, item) ==
    IF ms.ok
    THEN [item |-> [item EXCEPT !.Success = TRUE,
                                !.PathToFile = ms.groups[1],
                                !.SizeBytes = IF ParseInt(ms.groups[3]).ok
                                              THEN ParseInt(ms.groups[3]).val
                                              ELSE @],
          err |-> Nil]
    ELSE IF md.ok
    THEN [item |-> [item EXCEPT !.Success = FALSE,
                                !.ErrorMsg = PfxDownloadFailed \o md.groups[2]],
          err |-> Nil]
    ELSE IF ml.ok
    THEN [item |-> [item EXCEPT !.Success = FALSE,
                                !.ErrorMsg = PfxLoginFailed \o ml.groups[1]],
          err |-> Nil]
    ELSE [item |-> [item EXCEPT !.Success = FALSE, !.ErrorMsg = MsgUnknown],
          err |-> Errorf(PfxUnhandled \o output)]

\* parseBranches storing the byte field without the check of ParseInt
parseBranchesSizeUnchecked(ms, md, ml, output, item) ==
    IF ms.ok
    THEN [item |-> [item EXCEPT !.Success = TRUE,
                                !.PathToFile = ms.groups[2],
                                !.SizeBytes = StripZeros(ms.groups[3])],
          err |-> Nil]
    ELSE IF md.ok
    THEN [item |-> [item EXCEPT !.Success = FALSE,
                                !.ErrorMsg = PfxDownloadFailed \o md.groups[2]],
          err |-> Nil]
    ELSE IF ml.ok
    THEN [item |-> [item EXCEPT !.Success = FALSE,
                                !.ErrorMsg = PfxLoginFailed \o ml.groups[1]],
          err |-> Nil]
    ELSE [item |-> [item EXCEPT !.Success = FALSE, !.ErrorMsg = MsgUnknown],
          err |-> Errorf(PfxUnhandled \o output)]

\* parseBranches taking the download failure reason from matches[1], the item id
parseBranchesReasonFromId(ms, md, ml, output, item) ==
    IF ms.ok
    THEN [item |-> [item EXCEPT !.Success = TRUE,
                                !.PathToFile = ms.groups[2],
                                !.SizeBytes = IF ParseInt(ms.groups[3]).ok
                                              THEN ParseInt(ms.groups[3]).val
                                              ELSE @],
          err |-> Nil]
    ELSE IF md.ok
    THEN [item |-> [item EXCEPT !.Success = FALSE,
                                !.ErrorMsg = PfxDownloadFailed \o md.groups[1]],
          err |-> Nil]
    ELSE IF ml.ok
    THEN [item |-> [item EXCEPT !.Success = FALSE,
                                !.ErrorMsg = PfxLoginFailed \o ml.groups[1]],
          err |-> Nil]
    ELSE [item |-> [item EXCEPT !.Success = FALSE, !.ErrorMsg = MsgUnknown],
          err |-> Errorf(PfxUnhandled \o output)]

\* the branches of parseOutput for the matches ms, md, ml of its three
\* expressions: the item as it leaves it (fields it does not assign keep
\* their value) and the error it returns
parseBranches(ms, md, ml, output, item) ==
    IF ms.ok
    THEN [item |-> [item EXCEPT !.Success = TRUE,
                                !.PathToFile = ms.groups[2],
                                !.SizeBytes = IF ParseInt(ms.groups[3]).ok
                                              THEN ParseInt(ms.groups[3]).val
                                              ELSE @],
          err |-> Nil]
    ELSE IF md.ok
    THEN [item |-> [item EXCEPT !.Success = FALSE,
                                !.ErrorMsg = PfxDownloadFailed \o md.groups[2]],
          err |-> Nil]
    ELSE IF ml.ok
    THEN [item |-> [item EXCEPT !.Success = FALSE,
                                !.ErrorMsg = PfxLoginFailed \o ml.groups[1]],
          err |-> Nil]
    ELSE [item |-> [item EXCEPT !.Success = FALSE, !.ErrorMsg = MsgUnknown],
          err |-> Errorf(PfxUnhandled \o output)]

\* parseOutput(outputBuf, item)
parseOutput(output, item) ==
    parseBranches(FindStringSubmatch(successRegex, output),
                  FindStringSubmatch(downloadFailureRegex, output),
                  FindStringSubmatch(loginFailureRegex, output),
                  output, item)

\* ------------------------------------------------------ isRetryableError

retryablePatterns ==
    << <<"t","i","m","e","o","u","t">>, <<"c","o","n","n","e","c","t","i","o","n">>, <<"n","e","t","w","o","r","k">>, <<"s","e","r","v","e","r">>, <<"u","n","a","v","a","i","l","a","b","l","e">>,
       <<"b","u","s","y">>, <<"r","a","t","e"," ","l","i","m","i","t">>, <<"t","h","r","o","t","t","l","e">>, <<"n","o"," ","c","o","n","n","e","c","t","i","o","n">>,
       <<"s","t","e","a","m"," ","s","e","r","v","e","r","s">>, <<"f","a","i","l","u","r","e">>, <<"f","a","i","l","e","d">>, <<"e","r","r","o","r">>, <<"t","e","m","p","o","r","a","r","y">>,
       <<"r","e","t","r","y">>, <<"p","l","e","a","s","e"," ","t","r","y">> >>

\* isRetryableError without the strings.ToLower of the message
isRetryableErrorCaseSensitive(errorMsg) ==
    \E p \in 1..Len(retryablePatterns) : Contains(errorMsg, retryablePatterns[p])

\* isRetryableError without the generic patterns "failure", "failed" and "error"
isRetryableErrorNoGeneric(errorMsg) ==
    \E p \in (1..Len(retryablePatterns)) \ {11, 12, 13} :
        Contains(ToLower(errorMsg), retryablePatterns[p])

isRetryableError(errorMsg) ==
    LET errorLower == ToLower(errorMsg)
    IN  \E p \in 1..Len(retryablePatterns) : Contains(errorLower, retryablePatterns[p])

\* ------------------------------------------------- the download closures

LogNotLoggedOn == <<"N","o","t"," ","l","o","g","g","e","d"," ","o","n">>

LogGuardCode == <<"s","t","e","a","m","_","g","u","a","r","d","_","c","o","d","e">>

LogLogonDenied == <<"A","c","c","o","u","n","t"," ","L","o","g","o","n"," ","D","e","n","i","e","d">>

MsgNotLoggedOn == <<"n","o","t"," ","l","o","g","g","e","d"," ","o","n"," ","t","o"," ","S","t","e","a","m","."," ","P","l","e","a","s","e"," ","r","u","n"," ","'","w","o","r","k","s","h","o","p"," ","l","o","g","i","n","'"," ","f","i","r","s","t"," ","t","o"," ","a","u","t","h","e","n","t","i","c","a","t","e">>

MsgGuardRequired == <<"S","t","e","a","m"," ","G","u","a","r","d"," ","a","u","t","h","e","n","t","i","c","a","t","i","o","n"," ","r","e","q","u","i","r","e","d","."," ","P","l","e","a","s","e"," ","p","r","o","v","i","d","e"," ","-","-","g","u","a","r","d","-","c","o","d","e"," ","f","l","a","g"," ","w","i","t","h"," ","t","h","e"," ","c","o","d","e"," ","f","r","o","m"," ","y","o","u","r"," ","e","m","a","i","l">>

PfxFailedToRun == <<"f","a","i","l","e","d"," ","t","o"," ","r","u","n"," ","S","t","e","a","m","C","M","D",":"," ">>

PfxOutput == <<"\n","O","u","t","p","u","t",":"," ">>

PfxSteamCMDDownloadFailed == <<"S","t","e","a","m","C","M","D"," ","d","o","w","n","l","o","a","d"," ","f","a","i","l","e","d",":"," ">>

PfxFailedToParse == <<"f","a","i","l","e","d"," ","t","o"," ","p","a","r","s","e"," ","S","t","e","a","m","C","M","D"," ","o","u","t","p","u","t",":"," ">>

PfxDownloadFailedLower == <<"d","o","w","n","l","o","a","d"," ","f","a","i","l","e","d",":"," ">>

\* the text of the error cmd.Run returns for a process that exits non-zero
ExecErrText == <<"e","x","i","t"," ","s","t","a","t","u","s"," ","1">>

\* readLogFile: the content of the file, "" when it cannot be read
readLogFile(readable, content) == IF readable THEN content ELSE <<>>

\* AfterParse without the check of item.Success after a parse without error
AfterParseNoSuccessCheck(p) ==
    IF p.err # Nil
    THEN IF ~p.item.Success /\ isRetryableError(p.item.ErrorMsg)
         THEN [item |-> p.item,
               err |-> RetryableError(PfxSteamCMDDownloadFailed \o p.item.ErrorMsg)]
         ELSE [item |-> p.item, err |-> Errorf(PfxFailedToParse \o p.err.msg)]
    ELSE [item |-> p.item, err |-> Nil]

\* AfterParse returning every error of parseOutput as it is
AfterParseParseErrorFatal(p) ==
    IF p.err # Nil
    THEN [item |-> p.item, err |-> Errorf(PfxFailedToParse \o p.err.msg)]
    ELSE IF ~p.item.Success
    THEN IF isRetryableError(p.item.ErrorMsg)
         THEN [item |-> p.item,
               err |-> RetryableError(PfxDownloadFailedLower \o p.item.ErrorMsg)]
         ELSE [item |-> p.item, err |-> Errorf(PfxDownloadFailedLower \o p.item.ErrorMsg)]
    ELSE [item |-> p.item, err |-> Nil]

\* the steps of both closures on the result p of parseOutput (part_003 lines
\* 125-143 and 221-249): a retryable error, a plain error or nil
AfterParse(p) ==
    IF p.err # Nil
    THEN IF ~p.item.Success /\ isRetryableError(p.item.ErrorMsg)
         THEN [item |-> p.item,
               err |-> RetryableError(PfxSteamCMDDownloadFailed \o p.item.ErrorMsg)]
         ELSE [item |-> p.item, err |-> Errorf(PfxFailedToParse \o p.err.msg)]
    ELSE IF ~p.item.Success
    THEN IF isRetryableError(p.item.ErrorMsg)
         THEN [item |-> p.item,
               err |-> RetryableError(PfxDownloadFailedLower \o p.item.ErrorMsg)]
         ELSE [item |-> p.item, err |-> Errorf(PfxDownloadFailedLower \o p.item.ErrorMsg)]
    ELSE [item |-> p.item, err |-> Nil]

\* the steps of both closures after a process that ran to a zero exit status
AfterRun(output, item) == AfterParse(parseOutput(output, item))

\* DownloadWorkshopItemAttempt with the "Not logged on" error made retryable
DownloadWorkshopItemAttemptRetryNotLoggedOn(execFailed, output, logContent, item) ==
    IF execFailed
    THEN IF Contains(logContent, LogNotLoggedOn)
         THEN [item |-> item, err |-> RetryableError(MsgNotLoggedOn)]
         ELSE [item |-> item,
               err |-> RetryableError(PfxFailedToRun \o ExecErrText \o PfxOutput \o output)]
    ELSE AfterRun(output, item)

\* the closure of DownloadWorkshopItem from the return of cmd.Run on
DownloadWorkshopItemAttempt(execFailed, output, logContent, item) ==
    IF execFailed
    THEN IF Contains(logContent, LogNotLoggedOn)
         THEN [item |-> item, err |-> Errorf(MsgNotLoggedOn)]
         ELSE [item |-> item,
               err |-> RetryableError(PfxFailedToRun \o ExecErrText \o PfxOutput \o output)]
    ELSE AfterRun(output, item)

\* DownloadWorkshopItemWithAuthAttempt without the check for a Steam Guard
\* request in the log
DownloadWorkshopItemWithAuthAttemptNoGuardCheck(execFailed, output, logContent, item, guard) ==
    IF execFailed
    THEN IF Contains(logContent, LogNotLoggedOn)
         THEN [item |-> item, err |-> Errorf(MsgNotLoggedOn)]
         ELSE [item |-> item,
               err |-> RetryableError(PfxFailedToRun \o ExecErrText \o PfxOutput \o output)]
    ELSE AfterRun(output, item)

\* DownloadWorkshopItemWithAuthAttempt asking for a guard code even when one
\* was given
DownloadWorkshopItemWithAuthAttemptGuardAlways(execFailed, output, logContent, item, guard) ==
    IF execFailed
    THEN IF Contains(logContent, LogGuardCode) \/ Contains(logContent, LogLogonDenied)
         THEN [item |-> item, err |-> Errorf(MsgGuardRequired)]
         ELSE IF Contains(logContent, LogNotLoggedOn)
         THEN [item |-> item, err |-> Errorf(MsgNotLoggedOn)]
         ELSE [item |-> item,
               err |-> RetryableError(PfxFailedToRun \o ExecErrText \o PfxOutput \o output)]
    ELSE AfterRun(output, item)

\* the closure of DownloadWorkshopItemWithAuth from the return of cmd.Run on
DownloadWorkshopItemWithAuthAttempt(execFailed, output, logContent, item, guard) ==
    IF execFailed
    THEN IF /\ Contains(logContent, LogGuardCode) \/ Contains(logContent, LogLogonDenied)
            /\ guard = ""
         THEN [item |-> item, err |-> Errorf(MsgGuardRequired)]
         ELSE IF Contains(logContent, LogNotLoggedOn)
         THEN [item |-> item, err |-> Errorf(MsgNotLoggedOn)]
         ELSE [item |-> item,
               err |-> RetryableError(PfxFailedToRun \o ExecErrText \o PfxOutput \o output)]
    ELSE AfterRun(output, item)

\* the argument vector of DownloadWorkshopItem
DownloadArgs(appID, workshopID, user) ==
    IF user # ""
    THEN << "+@ShutdownOnFailedCommand", "1", "+login", user,
            "+workshop_download_item", appID, workshopID, "+quit" >>
    ELSE << "+@ShutdownOnFailedCommand", "1", "+login", "anonymous",
            "+workshop_download_item", appID, workshopID, "+quit" >>

\* DownloadWithAuthArgs setting the guard code after the download command
DownloadWithAuthArgsGuardLast(appID, workshopID, user, pass, guard) ==
    << "+@ShutdownOnFailedCommand", "1", "+@NoPromptForPassword", "1",
       "+login", user, pass >>
    \o << "+workshop_download_item", appID, workshopID >>
    \o (IF guard # "" THEN << "+set_steam_guard_code", guard >> ELSE <<>>)
    \o << "+quit" >>

\* the argument vector of DownloadWorkshopItemWithAuth
DownloadWithAuthArgs(appID, workshopID, user, pass, guard) ==
    << "+@ShutdownOnFailedCommand", "1", "+@NoPromptForPassword", "1",
       "+login", user, pass >>
    \o (IF guard # "" THEN << "+set_steam_guard_code", guard >> ELSE <<>>)
    \o << "+workshop_download_item", appID, workshopID, "+quit" >>

\* ------------------------------------------------------------- the retry

maxRetries == 10

\* retry.NewFibonacci(2 * time.Second), in seconds
BaseSeconds == 2

\* the state of a new Fibonacci backoff
NewFibonacci(base) == << 0, base >>

\* FibonacciNext doubling the delay (an exponential backoff)
FibonacciNextDoubling(state) ==
    [delay |-> state[1] + state[2], state |-> << state[1] + state[2], state[1] + state[2] >>]

\* Next of the Fibonacci backoff: the delay it returns and its new state
FibonacciNext(state) ==
    [delay |-> state[1] + state[2], state |-> << state[2], state[1] + state[2] >>]

\* BackoffStop counting one delay too many
BackoffStopOneLate(retriesUsed) == retriesUsed > maxRetries

\* Next of retry.WithMaxRetries(maxRetries, backoff): stop once maxRetries
\* delays were handed out
BackoffStop(retriesUsed) == retriesUsed >= maxRetries

\* RetryDecision starting a delay after every error
RetryDecisionSleepsOnFatal(cerr, retriesUsed) ==
    IF cerr = Nil THEN "return"
    ELSE IF BackoffStop(retriesUsed) THEN "return"
    ELSE "sleep"

\* what retry.Do does with the error the closure returned: "return" it, or
\* "sleep" before the next call of the closure
RetryDecision(cerr, retriesUsed) ==
    IF cerr = Nil THEN "return"
    ELSE IF ~cerr.retryable THEN "return"
    ELSE IF BackoffStop(retriesUsed) THEN "return"
    ELSE "sleep"

\* the error retry.Do returns: a retryable error is unwrapped
Unwrap(cerr) == [cerr EXCEPT !.retryable = FALSE]

\* ------------------- the download command and the client it is written for

\* the argument vector of DownloadWorkshopItem(appID, workshopID)
AnonymousArgs(appID, workshopID) ==
    << "+login", "anonymous", "+workshop_download_item", appID, workshopID, "+quit" >>

\* the argument vector of DownloadWorkshopItemWithAuth(appID, workshopID,
\* username, password)
LoginArgs(appID, workshopID, user, pass) ==
    << "+login", user, pass, "+workshop_download_item", appID, workshopID, "+quit" >>

\* the nil *WorkshopItem these two functions return with every error
NilItem == [nil |-> TRUE]

\* both functions on the result p of parseOutput
SingleRunAfterParse(p) ==
    IF p.err # Nil
    THEN [item |-> NilItem, err |-> Errorf(PfxFailedToParse \o p.err.msg)]
    ELSE [item |-> p.item, err |-> Nil]

\* both functions from the return of cmd.Run on: one run, no retry
SingleRunAttempt(execFailed, output, item) ==
    IF execFailed
    THEN [item |-> NilItem,
          err |-> Errorf(PfxFailedToRun \o ExecErrText \o PfxOutput \o output)]
    ELSE SingleRunAfterParse(parseOutput(output, item))

PfxCmdDownloadFailed == <<"d","o","w","n","l","o","a","d"," ","f","a","i","l","e","d",":"," ">>

PfxCmdDownloadUnsuccessful == <<"d","o","w","n","l","o","a","d"," ","u","n","s","u","c","c","e","s","s","f","u","l",":"," ">>

\* downloadWorkshopItem of the download command: the client function it
\* calls for the --username and --password it was given
CmdClientCall(user, pass) ==
    IF user # "" /\ pass # ""
    THEN "DownloadWorkshopItemWithAuth(appID, workshopID, username, password)"
    ELSE "DownloadWorkshopItem(appID, workshopID)"

\* downloadWorkshopItem from the return of the client on: the error of the
\* command
CmdError(r) ==
    IF r.err # Nil THEN Errorf(PfxCmdDownloadFailed \o r.err.msg)
    ELSE IF ~r.item.Success THEN Errorf(PfxCmdDownloadUnsuccessful \o r.item.ErrorMsg)
    ELSE Nil

\* CmdHandlesOutput not looking at the result of the download
CmdHandlesOutputAlways(r, extract, outputDir) == extract /\ outputDir # ""

\* downloadWorkshopItem: handleOutput is called for a successful download
\* when --extract and --output are given
CmdHandlesOutput(r, extract, outputDir) ==
    CmdError(r) = Nil /\ extract /\ outputDir # ""

\* ----------------------------------------------------------- cancellation

\* ctx := context.Background(): the Done channel of the context retry.Do
\* selects on is never closed
CtxDone == FALSE

\* ------------------------------------------------------------ the client

\* steamcmdExe of NewClient on a system that is not Windows
SteamCMDExe == <<"s","t","e","a","m","c","m","d","/","s","t","e","a","m","c","m","d",".","s","h">>

PfxNotFound == <<"S","t","e","a","m","C","M","D"," ","n","o","t"," ","f","o","u","n","d"," ","a","t"," ">>

SfxRunInstall == <<"."," ","R","u","n"," ","'","i","n","s","t","a","l","l","'"," ","c","o","m","m","a","n","d"," ","f","i","r","s","t">>

\* no call of NewClient was made
NoClient == [client |-> FALSE, err |-> Nil]

\* NewClient not looking for the executable
NewClientNoStat(exists) == [client |-> TRUE, err |-> Nil]

\* NewClient: the *Client and the error it returns when os.Stat does or does
\* not find the executable
NewClient(exists) ==
    IF ~exists
    THEN [client |-> FALSE, err |-> Errorf(PfxNotFound \o SteamCMDExe \o SfxRunInstall)]
    ELSE [client |-> TRUE, err |-> Nil]

PfxCmdNoClient == <<"f","a","i","l","e","d"," ","t","o"," ","c","r","e","a","t","e"," ","S","t","e","a","m","C","M","D"," ","c","l","i","e","n","t",":"," ">>

\* ------------------------------------------------------- InteractiveLogin

MarkCheckEmail == <<"P","l","e","a","s","e"," ","c","h","e","c","k"," ","y","o","u","r"," ","e","m","a","i","l">>

MarkUserInfoOK == <<"W","a","i","t","i","n","g"," ","f","o","r"," ","u","s","e","r"," ","i","n","f","o",".",".",".","O","K">>

MarkOK == <<"O","K">>

MarkFailed == <<"F","A","I","L","E","D">>

MarkLogonDenied == <<"L","o","g","o","n"," ","D","e","n","i","e","d">>

PfxReadGuardFailed == <<"f","a","i","l","e","d"," ","t","o"," ","r","e","a","d"," ","S","t","e","a","m"," ","G","u","a","r","d"," ","c","o","d","e",":"," ">>

EOFText == <<"E","O","F">>

MsgGuardCodeRequired == <<"S","t","e","a","m"," ","G","u","a","r","d"," ","c","o","d","e"," ","i","s"," ","r","e","q","u","i","r","e","d">>

MsgAuthFailedGuard == <<"a","u","t","h","e","n","t","i","c","a","t","i","o","n"," ","f","a","i","l","e","d"," ","-"," ","c","h","e","c","k"," ","y","o","u","r"," ","c","r","e","d","e","n","t","i","a","l","s"," ","o","r"," ","S","t","e","a","m"," ","G","u","a","r","d"," ","c","o","d","e">>

MsgAuthFailed == <<"a","u","t","h","e","n","t","i","c","a","t","i","o","n"," ","f","a","i","l","e","d"," ","-"," ","c","h","e","c","k"," ","y","o","u","r"," ","c","r","e","d","e","n","t","i","a","l","s">>

PfxUnclear == <<"a","u","t","h","e","n","t","i","c","a","t","i","o","n"," ","r","e","s","u","l","t"," ","u","n","c","l","e","a","r",":"," ">>

PfxExecutionFailed == <<"S","t","e","a","m","C","M","D"," ","e","x","e","c","u","t","i","o","n"," ","f","a","i","l","e","d",":"," ">>

\* the argument vector of the first login
InteractiveLoginArgs(user, pass) ==
    << "+@ShutdownOnFailedCommand", "0", "+@NoPromptForPassword", "1",
       "+login", user, pass, "+quit" >>

\* the argument vector of the login with the Steam Guard code
InteractiveLoginGuardArgs(user, pass, guard) ==
    << "+@ShutdownOnFailedCommand", "0", "+@NoPromptForPassword", "1",
       "+login", user, pass, "+set_steam_guard_code", guard, "+quit" >>

\* NeedsGuardCode finding a request for a code in every output
NeedsGuardCodeAlways(output) == TRUE

\* the output of the first login asks for a Steam Guard code
NeedsGuardCode(output) ==
    Contains(output, LogGuardCode) \/ Contains(output, MarkCheckEmail)

\* reader.ReadString('\n') on what standard input holds: the text up to and
\* including the first newline, or all of it and io.EOF when there is none
ReadString(stdin) ==
    IF \E i \in 1..Len(stdin) : stdin[i] = "\n"
    THEN [line |-> SubSeq(stdin, 1, CHOOSE i \in 1..Len(stdin) :
                                        /\ stdin[i] = "\n"
                                        /\ \A j \in 1..(i - 1) : stdin[j] # "\n"),
          eof |-> FALSE]
    ELSE [line |-> stdin, eof |-> TRUE]

IsSpace(c) == c \in {" ", "\t", "\n", "\r"}

RECURSIVE TrimLeft(_)
TrimLeft(s) == IF s # <<>> /\ IsSpace(Head(s)) THEN TrimLeft(Tail(s)) ELSE s

RECURSIVE TrimRight(_)
TrimRight(s) ==
    IF s # <<>> /\ IsSpace(s[Len(s)]) THEN TrimRight(SubSeq(s, 1, Len(s) - 1)) ELSE s

\* strings.TrimSpace
TrimSpace(s) == TrimRight(TrimLeft(s))

\* the text s as one word of an argument vector
RECURSIVE Word(_)
Word(s) == IF s = <<>> THEN "" ELSE Head(s) \o Word(Tail(s))

\* ReadGuardCode passing an empty code on to the second login
ReadGuardCodeNoEmptyCheck(stdin) ==
    IF ReadString(stdin).eof
    THEN [code |-> "", err |-> Errorf(PfxReadGuardFailed \o EOFText)]
    ELSE [code |-> Word(TrimSpace(ReadString(stdin).line)), err |-> Nil]

\* InteractiveLogin from the prompt to the second login: the code read from
\* standard input, or the error the login returns
ReadGuardCode(stdin) ==
    IF ReadString(stdin).eof
    THEN [code |-> "", err |-> Errorf(PfxReadGuardFailed \o EOFText)]
    ELSE IF TrimSpace(ReadString(stdin).line) = <<>>
    THEN [code |-> "", err |-> Errorf(MsgGuardCodeRequired)]
    ELSE [code |-> Word(TrimSpace(ReadString(stdin).line)), err |-> Nil]

\* InteractiveLogin on the output of the login with the Steam Guard code
GuardLoginResult(finalOutput) ==
    IF Contains(finalOutput, MarkUserInfoOK) \/ Contains(finalOutput, MarkOK)
    THEN Nil
    ELSE IF Contains(finalOutput, MarkFailed) \/ Contains(finalOutput, MarkLogonDenied)
    THEN Errorf(MsgAuthFailedGuard)
    ELSE Errorf(PfxUnclear \o finalOutput)

\* LoginResult looking at the error of cmd.Run first
LoginResultExecFirst(execFailed, output) ==
    IF execFailed
    THEN Errorf(PfxExecutionFailed \o ExecErrText \o PfxOutput \o output)
    ELSE IF Contains(output, MarkUserInfoOK) \/ Contains(output, MarkOK)
    THEN Nil
    ELSE IF Contains(output, MarkFailed) \/ Contains(output, MarkLogonDenied)
    THEN Errorf(MsgAuthFailed)
    ELSE Errorf(PfxUnclear \o output)

\* InteractiveLogin on the result of a first login that asks for no code
LoginResult(execFailed, output) ==
    IF Contains(output, MarkUserInfoOK) \/ Contains(output, MarkOK)
    THEN Nil
    ELSE IF Contains(output, MarkFailed) \/ Contains(output, MarkLogonDenied)
    THEN Errorf(MsgAuthFailed)
    ELSE IF execFailed
    THEN Errorf(PfxExecutionFailed \o ExecErrText \o PfxOutput \o output)
    ELSE Errorf(PfxUnclear \o output)

\* ------------------------------------------------------ the clean command

\* filepath.Join of a directory and a relative path
Join(dir, rel) == dir \o <<"/">> \o rel

localWorkshopBase(dir) == Join(dir, <<"s","t","e","a","m","a","p","p","s","/","w","o","r","k","s","h","o","p">>)

\* systemSteamBase of GetWorkshopCachePaths on Linux, for the home directory
\* /home/u
systemSteamBase == Join(<<"/","h","o","m","e","/","u">>, <<".","s","t","e","a","m","/","s","t","e","a","m","/","s","t","e","a","m","a","p","p","s","/","w","o","r","k","s","h","o","p">>)

\* GetWorkshopCachePaths of a client for the directory dir, on the file system
\* fs (the set of the paths that exist)
GetWorkshopCachePaths(dir, fs) ==
    (IF localWorkshopBase(dir) \in fs
     THEN << Join(localWorkshopBase(dir), <<"d","o","w","n","l","o","a","d","s">>),
             Join(localWorkshopBase(dir), <<"t","e","m","p">>),
             Join(localWorkshopBase(dir), <<"c","o","n","t","e","n","t">>) >>
     ELSE <<>>)
    \o (IF systemSteamBase \in fs
        THEN << Join(systemSteamBase, <<"d","o","w","n","l","o","a","d","s">>),
                Join(systemSteamBase, <<"t","e","m","p">>) >>
        ELSE <<>>)

\* cleanWorkshop: the paths of cachePaths that exist
existingPaths(cachePaths, fs) == SelectSeq(cachePaths, LAMBDA path : path \in fs)

\* Confirmed taking every answer but "n" for a yes
ConfirmedUnlessNo(response) == TrimSpace(ToLower(response)) # <<"n">>

\* cleanWorkshop: the answer read at the prompt confirms the removal
Confirmed(response) ==
    TrimSpace(ToLower(response)) = <<"y">> \/ TrimSpace(ToLower(response)) = <<"y","e","s">>

\* cleanWorkshop: the paths the loop removes
RemovedPaths(existing, cleanAll) ==
    { existing[i] : i \in { j \in 1..Len(existing) :
                              ~(~cleanAll /\ Contains(existing[j], <<"c","o","n","t","e","n","t">>)) } }

\* cleanWorkshop from the list of the existing paths on: whether it read the
\* prompt, what it removed and the error it returned
CleanResult(existing, force, cleanAll, stdin) ==
    IF existing = <<>>
    THEN [prompted |-> FALSE, removed |-> {}, err |-> Nil]
    ELSE IF ~force /\ ReadString(stdin).eof
    THEN [prompted |-> TRUE, removed |-> {},
          err |-> Errorf(<<"f","a","i","l","e","d"," ","t","o"," ","r","e","a","d"," ","i","n","p","u","t",":"," ">> \o EOFText)]
    ELSE IF ~force /\ ~Confirmed(ReadString(stdin).line)
    THEN [prompted |-> TRUE, removed |-> {}, err |-> Nil]
    ELSE [prompted |-> ~force, removed |-> RemovedPaths(existing, cleanAll), err |-> Nil]

\* ------------------------------------------- what SteamCMD prints and logs

NL == <<"\n">>

\* the three lines of SteamCMD the expressions of parseOutput are written for
SuccessLine(id, path, bytes) ==
    <<"S","u","c","c","e","s","s","."," ","D","o","w","n","l","o","a","d","e","d"," ","i","t","e","m"," ">> \o id \o <<" ","t","o"," ","\"">> \o path \o <<"\""," ","(">> \o bytes \o <<" ","b","y","t","e","s",")">>

DownloadFailureLine(id, reason) ==
    <<"E","R","R","O","R","!"," ","D","o","w","n","l","o","a","d"," ","i","t","e","m"," ">> \o id \o <<" ","f","a","i","l","e","d"," ","(">> \o reason \o <<")",".">>

LoginFailureLine(reason) == <<"F","A","I","L","E","D"," ","(">> \o reason \o <<")">>

NoiseLine == <<"W","a","i","t","i","n","g"," ","f","o","r"," ","u","s","e","r"," ","i","n","f","o",".",".",".","O","K">>

ItemPath == <<"/","w","/","7">>

ItemPathSpaced == <<"/","w","/","m","y"," ","i","t","e","m">>

ReasonTimeout == <<"T","i","m","e","o","u","t">>

ReasonInvalidPassword == <<"I","n","v","a","l","i","d"," ","P","a","s","s","w","o","r","d">>

ReasonRateLimit == <<"R","a","t","e"," ","L","i","m","i","t"," ","E","x","c","e","e","d","e","d">>

ReasonFailure == <<"F","a","i","l","u","r","e">>

\* byte fields: in range, beyond the int64 range, and not a number
BytesSmall == <<"1","2">>

BytesMax == <<"9","2","2","3","3","7","2","0","3","6","8","5","4","7","7","5","8","0","7">>

BytesHuge == <<"9","2","2","3","3","7","2","0","3","6","8","5","4","7","7","5","8","0","8">>

BytesNotNumber == <<"1","x">>

OutSuccess == NoiseLine \o NL \o SuccessLine(<<"7">>, ItemPath, BytesSmall) \o NL

OutSuccessHuge == SuccessLine(<<"7">>, ItemPathSpaced, BytesHuge) \o NL

OutSuccessNotNumber == SuccessLine(<<"7">>, ItemPath, BytesNotNumber) \o NL

OutTimeout == NoiseLine \o NL \o DownloadFailureLine(<<"7">>, ReasonTimeout) \o NL

OutInvalidPassword == LoginFailureLine(ReasonInvalidPassword) \o NL

OutNoise == NoiseLine \o NL

OutEmpty == <<>>

\* a login failure line followed by a success line
OutFailedThenSuccess ==
    LoginFailureLine(ReasonRateLimit) \o NL \o SuccessLine(<<"7">>, ItemPath, BytesMax) \o NL

\* a login failure line followed by a download failure line
OutFailedThenDownloadFailure ==
    LoginFailureLine(ReasonInvalidPassword) \o NL \o DownloadFailureLine(<<"7">>, ReasonTimeout) \o NL

\* a download failure line followed by a success line
OutTimeoutThenSuccess ==
    DownloadFailureLine(<<"7">>, ReasonTimeout) \o NL
    \o SuccessLine(<<"7">>, ItemPath, BytesSmall) \o NL

\* two download failure lines
OutFailureThenTimeout ==
    DownloadFailureLine(<<"7">>, ReasonFailure) \o NL
    \o DownloadFailureLine(<<"7">>, ReasonTimeout) \o NL

\* the phrase the closures look for in the console log, printed to the output
OutNotLoggedOn == LogNotLoggedOn \o NL

\* the outputs a SteamCMD run may leave in the buffer
Outputs ==
    { OutSuccess, OutSuccessHuge, OutSuccessNotNumber, OutTimeout, OutInvalidPassword,
      OutNoise, OutEmpty, OutFailedThenSuccess, OutFailedThenDownloadFailure,
      OutTimeoutThenSuccess, OutFailureThenTimeout, OutNotLoggedOn }

\* the outputs a login of InteractiveLogin may leave in the buffer
LoginOutOK == <<"L","o","a","d","i","n","g"," ","S","t","e","a","m"," ","A","P","I",".",".",".","O","K">> \o NL \o MarkUserInfoOK \o NL

LoginOutFailed == LoginFailureLine(ReasonInvalidPassword) \o NL

\* the start of SteamCMD reported before the login is refused
LoginOutStartedThenFailed ==
    <<"L","o","a","d","i","n","g"," ","S","t","e","a","m"," ","A","P","I",".",".",".","O","K">> \o NL \o LoginFailureLine(ReasonInvalidPassword) \o NL

LoginOutLogonDenied == <<"L","o","g","o","n"," ","D","e","n","i","e","d">> \o NL

LoginOutGuard == <<"L","o","a","d","i","n","g"," ","S","t","e","a","m"," ","A","P","I",".",".",".","O","K">> \o NL \o MarkCheckEmail \o NL

LoginOutputs ==
    { LoginOutOK, LoginOutFailed, LoginOutStartedThenFailed, LoginOutLogonDenied,
      LoginOutGuard, OutEmpty }

\* what standard input may hold when InteractiveLogin reads the code: a code,
\* a code between blanks, an empty line, a blank line, a code with no end of
\* line, nothing
Stdins == { <<"G","1","\n">>, <<" ","G","1"," ">> \o <<"\r", "\n">>, <<"\n">>, <<" "," ","\n">>, <<"G","1">>, <<>> }

\* the values of steamcmd_dir the clean command is run with
SteamCMDDirs == { <<"/","o","p","t","/","s","t","e","a","m","c","m","d">>, <<"/","o","p","t","/","c","o","n","t","e","n","t","/","s","t","e","a","m","c","m","d">> }

\* the file systems the clean command is run on: nothing, the three local
\* directories, local and system directories, an empty local workshop
\* directory
FileSystems(dir) ==
    LET lb == localWorkshopBase(dir)
        ld == Join(lb, <<"d","o","w","n","l","o","a","d","s">>)
        lt == Join(lb, <<"t","e","m","p">>)
        lc == Join(lb, <<"c","o","n","t","e","n","t">>)
        sb == systemSteamBase
        sd == Join(sb, <<"d","o","w","n","l","o","a","d","s">>)
        st == Join(sb, <<"t","e","m","p">>)
    IN  { {}, {lb, ld, lt, lc}, {lb, ld, lc, sb, sd, st}, {lb} }

\* what standard input may hold when the clean command asks for confirmation
CleanStdins == { <<"y","\n">>, <<" ","Y","e","s"," ","\n">>, <<"n","\n">>, <<"y","e","a","h","\n">>, <<"y">> }

\* the lines a SteamCMD run may append to logs/console_log.txt
LogLines == { LogNotLoggedOn \o NL, LogLogonDenied \o NL }

\* the line the process of another call appends to the console log when its
\* user has no session
OtherCallLine == LogNotLoggedOn \o NL

\* the number of lines the model lets the console log grow to
MaxLogLines == 1

\* ------------------------------------------------------------ the inputs

AppIDs == {"108600"}

WorkshopIDs == {"7"}

Usernames == {"", "bob"}

Passwords == {"pw"}

GuardCodes == {"", "G1"}

\* the values of --output of the download command
OutputDirs == {"", "out"}

\* the messages TestIsRetryableError expects to be retryable
TestRetryable ==
    { <<"c","o","n","n","e","c","t","i","o","n"," ","t","i","m","e","o","u","t"," ","o","c","c","u","r","r","e","d">>, <<"n","e","t","w","o","r","k"," ","e","r","r","o","r"," ","d","e","t","e","c","t","e","d">>, <<"s","e","r","v","e","r"," ","i","s"," ","b","u","s","y">>,
      <<"s","t","e","a","m"," ","s","e","r","v","e","r","s"," ","u","n","a","v","a","i","l","a","b","l","e">>, <<"r","a","t","e"," ","l","i","m","i","t"," ","e","x","c","e","e","d","e","d">>, <<"r","e","q","u","e","s","t"," ","t","h","r","o","t","t","l","e","d">>,
      <<"n","o"," ","c","o","n","n","e","c","t","i","o","n"," ","t","o"," ","s","t","e","a","m">> }

\* the messages TestIsRetryableError expects not to be retryable
TestNotRetryable ==
    { <<"i","n","v","a","l","i","d"," ","w","o","r","k","s","h","o","p"," ","i","t","e","m"," ","I","D">>, <<"w","o","r","k","s","h","o","p"," ","i","t","e","m"," ","n","o","t"," ","f","o","u","n","d">>,
      <<"l","o","g","i","n"," ","f","a","i","l","e","d"," ","-"," ","i","n","v","a","l","i","d"," ","c","r","e","d","e","n","t","i","a","l","s">>, <<"a","c","c","e","s","s"," ","d","e","n","i","e","d"," ","t","o"," ","w","o","r","k","s","h","o","p"," ","i","t","e","m">>,
      <<"s","o","m","e"," ","u","n","k","n","o","w","n"," ","e","r","r","o","r"," ","o","c","c","u","r","r","e","d">>, <<>> }

\* the messages of TestIsRetryableErrorCaseInsensitive
TestCaseInsensitive ==
    { <<"C","O","N","N","E","C","T","I","O","N"," ","T","I","M","E","O","U","T">>, <<"C","o","n","n","e","c","t","i","o","n"," ","T","i","m","e","o","u","t">>, <<"c","o","n","n","e","c","t","i","o","n"," ","t","i","m","e","o","u","t">>,
      <<"N","E","T","W","O","R","K"," ","E","R","R","O","R">>, <<"N","e","t","w","o","r","k"," ","E","r","r","o","r">>, <<"n","e","t","w","o","r","k"," ","e","r","r","o","r">> }

TestMessages == TestRetryable \cup TestNotRetryable \cup TestCaseInsensitive

\* &WorkshopItem{AppID: appID, WorkshopID: workshopID}
NewItem(appID, workshopID) ==
    [AppID |-> appID, WorkshopID |-> workshopID, Success |-> FALSE,
     PathToFile |-> <<>>, SizeBytes |-> Int64Zero, ErrorMsg |-> <<>>]

\* -------------------------------------------------------------- the state

VARIABLES
    pc,           \* "idle", "attempt" (top of retry.Do's loop), "running", "sleep", "done";
                  \* of InteractiveLogin: "login", "prompt", "guard"
    fn,           \* the download function called
    username, password, guardCode,   \* its credentials
    item,         \* the *WorkshopItem of the call
    attemptCount, \* attemptCount of the closure
    retriesUsed,  \* the attempt counter of retry.WithMaxRetries
    fib,          \* the state of the Fibonacci backoff
    nextDelay,    \* the delay retry.Do is sleeping for
    sleeps,       \* the delays slept in this call, in order
    args,         \* the argument vector of the last process started
    argvs,        \* the argument vectors of the processes started in this call
    invocations,  \* the number of processes started in this call
    raw,          \* the attempt that finished last: whether cmd.Run failed, the
                  \* output buffer, the log content read, and the log content it
                  \* would have read from a log holding only what its own
                  \* process wrote
    cerr,         \* the error the closure returned last
    outcomes,     \* per attempt: what retry.Do did with the closure's result
    err,          \* the error the call returned
    consoleLog,   \* the lines of logs/console_log.txt
    logLines,     \* the number of lines in consoleLog
    flags,        \* --username, --password, --extract and --output of the
                  \* download command that made the call
    cmdErr,       \* the error the download command returned
    relocated,    \* the download command called handleOutput
    cancelRequested,  \* the caller of the download asked for it to be cancelled
    tested,       \* the message isRetryableError was last called with by the
                  \* tests, and its result
    installed,    \* the SteamCMD executable exists at steamcmdExe
    client,       \* what the last call of NewClient returned
    phase1,       \* InteractiveLogin: the result of the first login
    stdinRead,    \* InteractiveLogin: what was read from standard input
    aloneLog,     \* logs/console_log.txt as it would be had no other call
                  \* run a process since this call started
    aloneRead,    \* the log content the attempt that finished last would
                  \* have read from aloneLog
    clean         \* the last run of the clean command: its configuration, the
                  \* file system it ran on and what it did

vars ==
    << pc, fn, username, password, guardCode, item, attemptCount, retriesUsed, fib,
       nextDelay, sleeps, args, argvs, invocations, raw, cerr, outcomes, err,
       consoleLog, logLines, flags, cmdErr, relocated, cancelRequested, tested,
       installed, client, phase1, stdinRead, aloneLog, aloneRead, clean >>

NoRaw == [execFailed |-> FALSE, output |-> <<>>, log |-> <<>>, own |-> <<>>]

\* a call of the client that is not made by the download command
NoFlags == [set |-> FALSE, username |-> "", password |-> "", extract |-> FALSE,
            output |-> ""]

\* InteractiveLogin has not finished its first login
NoPhase1 == [done |-> FALSE, execFailed |-> FALSE, output |-> <<>>]

\* InteractiveLogin has not read standard input
NoStdin == [read |-> FALSE, text |-> <<>>]

\* the clean command was not the last command run
NoClean == [ran |-> FALSE]

NoTest == [called |-> FALSE, msg |-> <<>>, result |-> FALSE]

\* the two download functions that retry (part_003)
RetriedCalls == {"DownloadWorkshopItem", "DownloadWorkshopItemWithAuth"}

Init ==
    /\ pc = "idle"
    /\ fn = "none"
    /\ username = ""
    /\ password = ""
    /\ guardCode = ""
    /\ item = NewItem("", "")
    /\ attemptCount = 0
    /\ retriesUsed = 0
    /\ fib = NewFibonacci(BaseSeconds)
    /\ nextDelay = 0
    /\ sleeps = <<>>
    /\ args = <<>>
    /\ argvs = {}
    /\ invocations = 0
    /\ raw = NoRaw
    /\ cerr = Nil
    /\ outcomes = <<>>
    /\ err = Nil
    /\ consoleLog = <<>>
    /\ logLines = 0
    /\ flags = NoFlags
    /\ cmdErr = Nil
    /\ relocated = FALSE
    /\ cancelRequested = FALSE
    /\ tested = NoTest
    /\ installed = FALSE
    /\ client = NoClient
    /\ phase1 = NoPhase1
    /\ stdinRead = NoStdin
    /\ aloneLog = <<>>
    /\ aloneRead = <<>>
    /\ clean = NoClean

\* the tests call isRetryableError on a message
TestIsRetryableError ==
    /\ pc = "idle"
    /\ \E m \in TestMessages :
          tested' = [called |-> TRUE, msg |-> m, result |-> isRetryableError(m)]
    /\ UNCHANGED << pc, fn, username, password, guardCode, item, attemptCount,
                    retriesUsed, fib, nextDelay, sleeps, args, argvs, invocations, raw,
                    cerr, outcomes, err, consoleLog, logLines, flags, cmdErr, relocated,
                    cancelRequested, installed, client, phase1, stdinRead, aloneLog, aloneRead,
                    clean >>

\* the entry of a call of the client or of the download command: nothing of
\* the call before it is left but the console log
EnterCall(f, appID, workshopID, user, pass, guard) ==
    /\ pc \in {"idle", "done"}
    /\ fn' = f
    /\ username' = user
    /\ password' = pass
    /\ guardCode' = guard
    /\ item' = NewItem(appID, workshopID)
    /\ attemptCount' = 0
    /\ retriesUsed' = 0
    /\ fib' = NewFibonacci(BaseSeconds)
    /\ nextDelay' = 0
    /\ sleeps' = <<>>
    /\ raw' = NoRaw
    /\ cerr' = Nil
    /\ outcomes' = <<>>
    /\ relocated' = FALSE
    /\ cancelRequested' = FALSE
    /\ tested' = NoTest
    /\ phase1' = NoPhase1
    /\ stdinRead' = NoStdin
    /\ aloneLog' = consoleLog
    /\ aloneRead' = <<>>
    /\ UNCHANGED << consoleLog, logLines, installed >>

\* the entry of a download call up to retry.Do: a new item, a new backoff
StartCall(f, appID, workshopID, user, pass, guard) ==
    /\ EnterCall(f, appID, workshopID, user, pass, guard)
    /\ pc' = "attempt"
    /\ args' = <<>>
    /\ argvs' = {}
    /\ invocations' = 0
    /\ err' = Nil
    /\ cmdErr' = Nil
    /\ clean' = NoClean

\* a call of DownloadWorkshopItem of a *Client NewClient returned
CallDownloadWorkshopItem ==
    /\ client.client
    /\ \E appID \in AppIDs, workshopID \in WorkshopIDs, user \in Usernames :
          StartCall("DownloadWorkshopItem", appID, workshopID, user, "", "")
    /\ flags' = NoFlags
    /\ UNCHANGED client

\* a call of DownloadWorkshopItemWithAuth of a *Client NewClient returned
CallDownloadWorkshopItemWithAuth ==
    /\ client.client
    /\ \E appID \in AppIDs, workshopID \in WorkshopIDs, user \in Usernames \ {""},
          pass \in Passwords, guard \in GuardCodes :
          StartCall("DownloadWorkshopItemWithAuth", appID, workshopID, user, pass, guard)
    /\ flags' = NoFlags
    /\ UNCHANGED client

\* the installer puts the SteamCMD executable in place
installSteamCMD ==
    /\ pc \in {"idle", "done"}
    /\ ~installed
    /\ installed' = TRUE
    /\ UNCHANGED << pc, fn, username, password, guardCode, item, attemptCount,
                    retriesUsed, fib, nextDelay, sleeps, args, argvs, invocations, raw,
                    cerr, outcomes, err, consoleLog, logLines, flags, cmdErr, relocated,
                    cancelRequested, tested, client, phase1, stdinRead, aloneLog,
                    aloneRead, clean >>

\* a caller of the package creates a client
CallNewClient ==
    /\ pc \in {"idle", "done"}
    /\ client' = NewClient(installed)
    /\ UNCHANGED << pc, fn, username, password, guardCode, item, attemptCount,
                    retriesUsed, fib, nextDelay, sleeps, args, argvs, invocations, raw,
                    cerr, outcomes, err, consoleLog, logLines, flags, cmdErr, relocated,
                    cancelRequested, tested, installed, phase1, stdinRead, aloneLog,
                    aloneRead, clean >>

\* downloadWorkshopItem of the download command up to cmd.Run of the client
\* function it calls: with --username and --password the login of that user,
\* in every other case the anonymous download; without a client the command
\* returns the error of NewClient
downloadWorkshopItem ==
    \E appID \in AppIDs, workshopID \in WorkshopIDs, user \in Usernames,
       pass \in Passwords \cup {""}, extract \in BOOLEAN, outputDir \in OutputDirs :
        /\ flags' = [set |-> TRUE, username |-> user, password |-> pass,
                     extract |-> extract, output |-> outputDir]
        /\ client' = NewClient(installed)
        /\ IF NewClient(installed).err # Nil
           THEN /\ EnterCall("downloadWorkshopItem", appID, workshopID, "", "", "")
                /\ pc' = "done"
                /\ args' = <<>>
                /\ argvs' = {}
                /\ invocations' = 0
                /\ err' = Nil
                /\ cmdErr' = Errorf(PfxCmdNoClient \o NewClient(installed).err.msg)
                /\ clean' = NoClean
           ELSE IF user # "" /\ pass # ""
           THEN StartCall(CmdClientCall(user, pass), appID, workshopID, user, pass, "")
           ELSE StartCall(CmdClientCall(user, pass), appID, workshopID, "", "", "")

\* the argument vector of the call in progress
CallArgs ==
    CASE fn = "DownloadWorkshopItem" ->
             DownloadArgs(item.AppID, item.WorkshopID, username)
      [] fn = "DownloadWorkshopItemWithAuth" ->
             DownloadWithAuthArgs(item.AppID, item.WorkshopID, username, password, guardCode)
      [] fn = "DownloadWorkshopItem(appID, workshopID)" ->
             AnonymousArgs(item.AppID, item.WorkshopID)
      [] OTHER -> LoginArgs(item.AppID, item.WorkshopID, username, password)

\* Invoke falling back to the anonymous login on a retry of DownloadWorkshopItem
InvokeAnonymousOnRetry ==
    /\ pc = "attempt"
    /\ ~CtxDone
    /\ pc' = "running"
    /\ attemptCount' = attemptCount + 1
    /\ args' = IF fn = "DownloadWorkshopItem" /\ attemptCount >= 1
               THEN DownloadArgs(item.AppID, item.WorkshopID, "")
               ELSE CallArgs
    /\ argvs' = argvs \cup {args'}
    /\ invocations' = invocations + 1
    /\ UNCHANGED << fn, username, password, guardCode, item, retriesUsed, fib, nextDelay,
                    sleeps, raw, cerr, outcomes, err, consoleLog, logLines, flags, cmdErr,
                    relocated, cancelRequested, tested, installed, client, phase1, stdinRead, aloneLog, aloneRead,
                    clean >>

\* Invoke not waiting for the delay to elapse
InvokeDuringDelay ==
    /\ pc \in {"attempt", "sleep"}
    /\ ~CtxDone
    /\ pc' = "running"
    /\ attemptCount' = attemptCount + 1
    /\ args' = CallArgs
    /\ argvs' = argvs \cup {args'}
    /\ invocations' = invocations + 1
    /\ UNCHANGED << fn, username, password, guardCode, item, retriesUsed, fib, nextDelay,
                    sleeps, raw, cerr, outcomes, err, consoleLog, logLines, flags, cmdErr,
                    relocated, cancelRequested, tested, installed, client, phase1, stdinRead, aloneLog, aloneRead,
                    clean >>

\* the closure up to cmd.Run: count the attempt, build the arguments, start
\* the process
Invoke ==
    /\ pc = "attempt"
    /\ ~CtxDone
    /\ pc' = "running"
    /\ attemptCount' = attemptCount + 1
    /\ args' = CallArgs
    /\ argvs' = argvs \cup {args'}
    /\ invocations' = invocations + 1
    /\ UNCHANGED << fn, username, password, guardCode, item, retriesUsed, fib, nextDelay,
                    sleeps, raw, cerr, outcomes, err, consoleLog, logLines, flags, cmdErr,
                    relocated, cancelRequested, tested, installed, client, phase1, stdinRead, aloneLog, aloneRead,
                    clean >>

\* the result of the closure for a finished process
Attempt(execFailed, output, logContent) ==
    CASE fn = "DownloadWorkshopItem" ->
             DownloadWorkshopItemAttempt(execFailed, output, logContent, item)
      [] fn = "DownloadWorkshopItemWithAuth" ->
             DownloadWorkshopItemWithAuthAttempt(execFailed, output, logContent, item,
                                                 guardCode)
      [] OTHER -> SingleRunAttempt(execFailed, output, item)

\* retry.Do on the result r of the closure: return it, or start the delay;
\* the download command goes on from the return of its client call
Conclude(r, decision) ==
    /\ item' = r.item
    /\ cerr' = r.err
    /\ outcomes' = Append(outcomes,
                      IF r.err = Nil THEN "success"
                      ELSE IF r.err.retryable THEN "retryable" ELSE "fatal")
    /\ IF decision = "return"
       THEN /\ pc' = "done"
            /\ err' = Unwrap(r.err)
            /\ cmdErr' = IF flags.set THEN CmdError(r) ELSE Nil
            /\ relocated' = (flags.set /\ CmdHandlesOutput(r, flags.extract, flags.output))
            /\ UNCHANGED << retriesUsed, fib, nextDelay >>
       ELSE /\ pc' = "sleep"
            /\ retriesUsed' = retriesUsed + 1
            /\ fib' = FibonacciNext(fib).state
            /\ nextDelay' = FibonacciNext(fib).delay
            /\ UNCHANGED << err, cmdErr, relocated >>

\* retry.Do on the result r of the closure; the functions of part_004 return
\* the result of their one run
Decide(r) ==
    Conclude(r, IF fn \in RetriedCalls THEN RetryDecision(r.err, retriesUsed) ELSE "return")

\* the process exits (cmd.Run returns), the closure finishes and retry.Do
\* returns or starts the delay
Finish(execFailed, output, logContent, ownContent) ==
    /\ raw' = [execFailed |-> execFailed, output |-> output, log |-> logContent,
               own |-> ownContent]
    /\ Decide(Attempt(execFailed, output, logContent))

\* a process that exits with status zero
ExitOK ==
    /\ pc = "running"
    /\ \E output \in Outputs : Finish(FALSE, output, <<>>, <<>>)
    /\ aloneRead' = <<>>
    /\ UNCHANGED << fn, username, password, guardCode, attemptCount, sleeps, args, argvs,
                    invocations, consoleLog, logLines, flags, cancelRequested, tested,
                    installed, client, phase1, stdinRead, aloneLog, clean >>

\* a process that cannot be started or exits with a failure status; it may
\* have appended a line to the console log
ExitFailed ==
    /\ pc = "running"
    /\ \E output \in Outputs, readable \in BOOLEAN :
          \/ /\ Finish(TRUE, output, readLogFile(readable, consoleLog), <<>>)
             /\ aloneRead' = readLogFile(readable, aloneLog)
             /\ UNCHANGED << consoleLog, logLines, aloneLog >>
          \/ /\ logLines < MaxLogLines
             /\ \E line \in LogLines :
                   /\ consoleLog' = consoleLog \o line
                   /\ logLines' = logLines + 1
                   /\ aloneLog' = aloneLog \o line
                   /\ aloneRead' = readLogFile(readable, aloneLog \o line)
                   /\ Finish(TRUE, output, readLogFile(readable, consoleLog \o line),
                             readLogFile(readable, line))
    /\ UNCHANGED << fn, username, password, guardCode, attemptCount, sleeps, args, argvs,
                    invocations, flags, cancelRequested, tested, installed, client,
                    phase1, stdinRead, clean >>

\* the delay of retry.Do elapses; the output buffer and the error of the
\* attempt before it are out of scope from here on
Sleep ==
    /\ pc = "sleep"
    /\ ~CtxDone
    /\ pc' = "attempt"
    /\ sleeps' = Append(sleeps, nextDelay)
    /\ raw' = NoRaw
    /\ cerr' = Nil
    /\ aloneRead' = <<>>
    /\ UNCHANGED << fn, username, password, guardCode, item, attemptCount, retriesUsed,
                    fib, nextDelay, args, argvs, invocations, outcomes, err, consoleLog,
                    logLines, flags, cmdErr, relocated, cancelRequested, tested,
                    installed, client, phase1, stdinRead, aloneLog, clean >>

\* the caller of a retried download asks for it to be cancelled, before the
\* first attempt or during a delay; the calls take no context and no channel,
\* so the request reaches nothing the call reads
RequestCancel ==
    /\ pc \in {"attempt", "sleep"}
    /\ fn \in RetriedCalls
    /\ ~cancelRequested
    /\ cancelRequested' = TRUE
    /\ UNCHANGED << pc, fn, username, password, guardCode, item, attemptCount,
                    retriesUsed, fib, nextDelay, sleeps, args, argvs, invocations, raw,
                    cerr, outcomes, err, consoleLog, logLines, flags, cmdErr, relocated,
                    tested, installed, client, phase1, stdinRead, aloneLog, aloneRead,
                    clean >>

\* a process of another download call made through the same client appends
\* a line to logs/console_log.txt of the SteamCMD directory while the
\* process of this call runs
OtherCallLogs ==
    /\ pc = "running"
    /\ fn \in RetriedCalls
    /\ logLines < MaxLogLines
    /\ consoleLog' = consoleLog \o OtherCallLine
    /\ logLines' = logLines + 1
    /\ UNCHANGED << pc, fn, username, password, guardCode, item, attemptCount,
                    retriesUsed, fib, nextDelay, sleeps, args, argvs, invocations, raw,
                    cerr, outcomes, err, flags, cmdErr, relocated, cancelRequested,
                    tested, installed, client, phase1, stdinRead, aloneLog, aloneRead,
                    clean >>

\* InteractiveLogin of a *Client NewClient returned, up to cmd.Run of the
\* first login
CallInteractiveLogin ==
    /\ client.client
    /\ \E user \in Usernames \ {""}, pass \in Passwords :
          /\ EnterCall("InteractiveLogin", "", "", user, pass, "")
          /\ args' = InteractiveLoginArgs(user, pass)
          /\ argvs' = {InteractiveLoginArgs(user, pass)}
    /\ pc' = "login"
    /\ invocations' = 1
    /\ err' = Nil
    /\ cmdErr' = Nil
    /\ clean' = NoClean
    /\ flags' = NoFlags
    /\ UNCHANGED client

\* the first login exits: InteractiveLogin prompts for the Steam Guard code
\* when the output asks for one, and returns in every other case
LoginExit ==
    /\ pc = "login"
    /\ \E execFailed \in BOOLEAN, output \in LoginOutputs :
          /\ raw' = [execFailed |-> execFailed, output |-> output, log |-> <<>>,
                     own |-> <<>>]
          /\ phase1' = [done |-> TRUE, execFailed |-> execFailed, output |-> output]
          /\ IF NeedsGuardCode(output)
             THEN /\ pc' = "prompt"
                  /\ UNCHANGED err
             ELSE /\ pc' = "done"
                  /\ err' = LoginResult(execFailed, output)
    /\ UNCHANGED << fn, username, password, guardCode, item, attemptCount, retriesUsed,
                    fib, nextDelay, sleeps, args, argvs, invocations, cerr, outcomes,
                    consoleLog, logLines, flags, cmdErr, relocated, cancelRequested,
                    tested, installed, client, stdinRead, aloneLog, aloneRead, clean >>

\* InteractiveLogin reads standard input: it returns the error of the read
\* or of an empty code, or starts the login with the code
PromptGuardCode ==
    /\ pc = "prompt"
    /\ \E stdin \in Stdins :
          /\ stdinRead' = [read |-> TRUE, text |-> stdin]
          /\ IF ReadGuardCode(stdin).err # Nil
             THEN /\ pc' = "done"
                  /\ err' = ReadGuardCode(stdin).err
                  /\ UNCHANGED << guardCode, args, argvs, invocations >>
             ELSE /\ pc' = "guard"
                  /\ guardCode' = ReadGuardCode(stdin).code
                  /\ args' = InteractiveLoginGuardArgs(username, password,
                                                       ReadGuardCode(stdin).code)
                  /\ argvs' = argvs \cup {args'}
                  /\ invocations' = invocations + 1
                  /\ UNCHANGED err
    /\ UNCHANGED << fn, username, password, item, attemptCount, retriesUsed, fib,
                    nextDelay, sleeps, raw, cerr, outcomes, consoleLog, logLines, flags,
                    cmdErr, relocated, cancelRequested, tested, installed, client,
                    phase1, aloneLog, aloneRead, clean >>

\* the login with the code exits and InteractiveLogin returns
GuardLoginExit ==
    /\ pc = "guard"
    /\ \E execFailed \in BOOLEAN, output \in LoginOutputs :
          /\ raw' = [execFailed |-> execFailed, output |-> output, log |-> <<>>,
                     own |-> <<>>]
          /\ err' = GuardLoginResult(output)
    /\ pc' = "done"
    /\ UNCHANGED << fn, username, password, guardCode, item, attemptCount, retriesUsed,
                    fib, nextDelay, sleeps, args, argvs, invocations, cerr, outcomes,
                    consoleLog, logLines, flags, cmdErr, relocated, cancelRequested,
                    tested, installed, client, phase1, stdinRead, aloneLog, aloneRead,
                    clean >>

\* the runs of cleanWorkshop from the client on, over the directories, the
\* file systems, the flags and the answers: the configuration and the file
\* system of the run, the answer if the prompt was read, and the result
CleanRuns ==
    UNION { { [ran |-> TRUE, dir |-> dir, fs |-> fs, force |-> force, all |-> cleanAll,
               stdin |-> IF CleanResult(existingPaths(GetWorkshopCachePaths(dir, fs), fs),
                                        force, cleanAll, stdin).prompted
                         THEN stdin ELSE <<>>,
               result |-> CleanResult(existingPaths(GetWorkshopCachePaths(dir, fs), fs),
                                      force, cleanAll, stdin)] :
              fs \in FileSystems(dir), force \in BOOLEAN, cleanAll \in BOOLEAN,
              stdin \in CleanStdins } : dir \in SteamCMDDirs }

\* cleanWorkshop of the clean command, from NewClient to its return. The
\* command is a process of its own and reads nothing an earlier command left
\* but the installation: it starts from the state no call has touched.
cleanWorkshop ==
    /\ pc = "idle"
    /\ EnterCall("cleanWorkshop", "", "", "", "", "")
    /\ IF NewClient(installed).err # Nil
       THEN /\ cmdErr' = Errorf(PfxCmdNoClient \o NewClient(installed).err.msg)
            /\ clean' = NoClean
       ELSE \E run \in CleanRuns :
               /\ cmdErr' = run.result.err
               /\ clean' = run
    /\ client' = NewClient(installed)
    /\ pc' = "done"
    /\ args' = <<>>
    /\ argvs' = {}
    /\ invocations' = 0
    /\ err' = Nil
    /\ flags' = NoFlags

Next ==
    \/ cleanWorkshop
    \/ TestIsRetryableError
    \/ installSteamCMD
    \/ CallNewClient
    \/ CallDownloadWorkshopItem
    \/ CallDownloadWorkshopItemWithAuth
    \/ downloadWorkshopItem
    \/ Invoke
    \/ ExitOK
    \/ ExitFailed
    \/ OtherCallLogs
    \/ Sleep
    \/ RequestCancel
    \/ CallInteractiveLogin
    \/ LoginExit
    \/ PromptGuardCode
    \/ GuardLoginExit

Spec == Init /\ [][Next]_vars

\* the steps the fairness of a call is stated for: they are the steps of
\* Invoke, of ExitOK and ExitFailed, and of Sleep, which are enabled in every
\* state with pc at "attempt", "running" and "sleep"
ClosureCalled == pc = "attempt" /\ pc' = "running"

ProcessExits == pc = "running" /\ pc' \in {"sleep", "done"}

DelayElapses == pc = "sleep" /\ pc' = "attempt"

\* retry.Do calls the closure, every process started exits (cmd.Run returns)
\* and every delay elapses
Fairness ==
    /\ WF_pc(ClosureCalled)
    /\ WF_pc(ProcessExits)
    /\ WF_pc(DelayElapses)

LiveSpec == Spec /\ Fairness

\* ------------------------------------------------------------ properties

\* a retried download call has returned: item and err are its results
Returned == pc = "done" /\ fn \in RetriedCalls

\* an attempt has finished and retry.Do has decided: raw, item and cerr are
\* those of that attempt
Decided == pc \in {"sleep", "done"} /\ fn \in RetriedCalls

\* the success lines of the outputs, with the size each embeds (0: beyond int64)
SuccessFixtures ==
    { [id |-> <<"7">>, path |-> ItemPath, bytes |-> BytesSmall, size |-> BytesSmall],
      [id |-> <<"7">>, path |-> ItemPath, bytes |-> BytesMax, size |-> BytesMax],
      [id |-> <<"7">>, path |-> ItemPathSpaced, bytes |-> BytesHuge, size |-> Int64Zero] }

HasSuccessLine(o) ==
    \E f \in SuccessFixtures : Contains(o, SuccessLine(f.id, f.path, f.bytes))

DownloadReasons == {ReasonTimeout, ReasonFailure}

HasDownloadFailureLine(o) ==
    \E r \in DownloadReasons : Contains(o, DownloadFailureLine(<<"7">>, r))

LoginReasons == {ReasonInvalidPassword, ReasonRateLimit}

\* C1: when a download call has returned, item.Success is true exactly when
\* the last attempt ran and its output was classified Success, and exactly
\* when the returned error is nil.
C1_SuccessIffClassifiedIffNil ==
    Returned =>
        /\ item.Success <=> (~raw.execFailed /\ Classify(raw.output) = "Success")
        /\ item.Success <=> (err = Nil)

\* a call that returned success after at least one retried attempt
C1_Witness == Returned /\ item.Success /\ err = Nil /\ attemptCount >= 2

\* C2: a returned item with Success = true has an empty ErrorMsg, whatever
\* attempts preceded the success.
C2_SuccessHasNoErrorMsg ==
    (Returned /\ item.Success) => item.ErrorMsg = <<>>

\* C3: a returned item with Success = false has an empty PathToFile and
\* SizeBytes 0.
C3_FailureHasNoPath ==
    (Returned /\ ~item.Success) =>
        (item.PathToFile = <<>> /\ item.SizeBytes = Int64Zero)

\* a call that returned failure after several attempts
C3_Witness == Returned /\ ~item.Success /\ err # Nil /\ attemptCount >= 2

\* C4: a call that ends in failure returns Success = false, a non-empty
\* ErrorMsg and a non-nil error, also when the last attempt failed at
\* process-execution level.
C4_FailureHasErrorMsg ==
    (Returned /\ (err # Nil \/ ~item.Success)) =>
        (~item.Success /\ item.ErrorMsg # <<>> /\ err # Nil)

\* the first attempt is fatal by the rules of the closures: cmd.Run failed
\* and the log read says "Not logged on", or asks for a Steam Guard code that
\* was not given
FatalRun ==
    /\ raw.execFailed
    /\ \/ Contains(raw.log, LogNotLoggedOn)
       \/ /\ fn = "DownloadWorkshopItemWithAuth"
          /\ guardCode = ""
          /\ Contains(raw.log, LogGuardCode) \/ Contains(raw.log, LogLogonDenied)

FatalReason ==
    IF /\ fn = "DownloadWorkshopItemWithAuth"
       /\ guardCode = ""
       /\ Contains(raw.log, LogGuardCode) \/ Contains(raw.log, LogLogonDenied)
    THEN MsgGuardRequired
    ELSE MsgNotLoggedOn

\* C5: when the first attempt of a call is fatal, the call has returned with
\* exactly one process invocation and no sleep, Success = false and the
\* fatal reason as its error.
C5_FatalFirstAttempt ==
    (Decided /\ attemptCount = 1 /\ (FatalRun \/ (cerr # Nil /\ ~cerr.retryable))) =>
        /\ Returned
        /\ invocations = 1
        /\ sleeps = <<>>
        /\ ~item.Success
        /\ err = cerr
        /\ FatalRun
        /\ err.msg = FatalReason

\* a first attempt that failed to run with "Not logged on" in the log
C5_Witness == Decided /\ attemptCount = 1 /\ FatalRun /\ fn = "DownloadWorkshopItem"

\* C6: retryable failures on attempts 1 and 2 and a success on attempt 3:
\* the call goes on after each failure, sleeps once before attempt 2 and once
\* before attempt 3, the second delay not smaller than the first, and returns
\* after exactly three invocations with Success = true and the path and size
\* of attempt 3.
C6_TwoRetriesThenSuccess ==
    /\ (outcomes = << "retryable", "retryable" >>) =>
          /\ pc \in {"sleep", "attempt", "running"}
          /\ pc = "sleep" => (invocations = 2 /\ Len(sleeps) = 1)
          /\ pc = "attempt" => (invocations = 2 /\ Len(sleeps) = 2)
    /\ (outcomes = << "retryable", "retryable", "success" >>) =>
          /\ Returned
          /\ invocations = 3
          /\ Len(sleeps) = 2
          /\ sleeps[2] >= sleeps[1]
          /\ item.Success
          /\ err = Nil
          /\ \A f \in SuccessFixtures :
                Contains(raw.output, SuccessLine(f.id, f.path, f.bytes)) =>
                    (item.PathToFile = f.path /\ item.SizeBytes = f.size)

\* the call returned by a success on its third attempt
C6_Witness ==
    /\ outcomes = << "retryable", "retryable", "success" >>
    /\ Returned
    /\ raw.output = OutSuccess

\* C7: an attempt whose output is classified as the login failure
\* FAILED (Invalid Password) has the reason "Invalid Password" and is fatal:
\* the call returns without a further attempt.
C7_InvalidPasswordIsFatal ==
    (Decided /\ ~raw.execFailed /\ raw.output = OutInvalidPassword) =>
        /\ item.ErrorMsg = PfxLoginFailed \o ReasonInvalidPassword
        /\ cerr # Nil
        /\ ~cerr.retryable
        /\ Returned

\* the reason text classified from an output
ClassifiedReason(o) ==
    IF Classify(o) = "DownloadFailure"
    THEN FindStringSubmatch(downloadFailureRegex, o).groups[2]
    ELSE IF Classify(o) = "LoginFailure"
    THEN FindStringSubmatch(loginFailureRegex, o).groups[1]
    ELSE o

\* C8: the error of a failed call includes the reason classified from the
\* last attempt, and the raw output of the last attempt when that output
\* matched no pattern.
C8_ErrorIncludesReason ==
    (Returned /\ err # Nil /\ ~raw.execFailed) =>
        Contains(err.msg, ClassifiedReason(raw.output))

\* C9: parseOutput selects one outcome by the priority success, download
\* failure, login failure, unknown: a success line wins over failure lines,
\* and a download failure line wins over a FAILED (...) line.
C9_ClassificationPriority ==
    (Decided /\ ~raw.execFailed) =>
        IF HasSuccessLine(raw.output)
        THEN item.Success /\ cerr = Nil
        ELSE IF HasDownloadFailureLine(raw.output)
        THEN /\ ~item.Success
             /\ \E r \in DownloadReasons :
                   /\ Contains(raw.output, DownloadFailureLine(<<"7">>, r))
                   /\ item.ErrorMsg = PfxDownloadFailed \o r
        ELSE IF \E r \in LoginReasons : Contains(raw.output, LoginFailureLine(r))
        THEN /\ ~item.Success
             /\ \E r \in LoginReasons :
                   /\ Contains(raw.output, LoginFailureLine(r))
                   /\ item.ErrorMsg = PfxLoginFailed \o r
        ELSE ~item.Success /\ item.ErrorMsg = MsgUnknown

\* an output with a FAILED (...) line and a download failure line was parsed
C9_Witness == Decided /\ ~raw.execFailed /\ raw.output = OutFailedThenDownloadFailure

\* C10 as stated: every success line, also one whose byte field is not a
\* number, is classified Success, with size 0 when the field does not parse.
C10_AnyByteFieldIsSuccess ==
    (Decided /\ ~raw.execFailed) =>
        \A b \in {BytesSmall, BytesMax, BytesHuge, BytesNotNumber} :
            \A p \in {ItemPath, ItemPathSpaced} :
                Contains(raw.output, SuccessLine(<<"7">>, p, b)) =>
                    /\ item.Success
                    /\ item.PathToFile = p
                    /\ ~ParseInt(b).ok => item.SizeBytes = Int64Zero

\* C10, amended: a success line whose byte field is a digit string is
\* classified Success with the path as embedded and the size of the field, and
\* with size 0 when the digit string is beyond the int64 range; a line whose
\* byte field is not a digit string does not match the success pattern, and
\* the output is classified by the other patterns (Unknown when none matches).
C10_DigitByteFieldIsSuccess ==
    (Decided /\ ~raw.execFailed) =>
        /\ \A f \in SuccessFixtures :
              Contains(raw.output, SuccessLine(f.id, f.path, f.bytes)) =>
                  /\ item.Success
                  /\ cerr = Nil
                  /\ item.PathToFile = f.path
                  /\ item.SizeBytes = f.size
        /\ raw.output = OutSuccessNotNumber =>
              (~item.Success /\ item.ErrorMsg = MsgUnknown /\ cerr # Nil)

\* a success line with a byte count beyond int64 was parsed
C10_Witness == Decided /\ ~raw.execFailed /\ raw.output = OutSuccessHuge /\ item.Success

\* the position of the first occurrence of sub in s
FirstIndex(s, sub) ==
    CHOOSE i \in 1..Len(s) :
        IsPrefixAt(sub, s, i) /\ \A j \in 1..(i - 1) : ~IsPrefixAt(sub, s, j)

\* the line of C11, as the claim writes it
TimeoutPhrase == <<"E","R","R","O","R","!"," ","D","o","w","n","l","o","a","d"," ","i","t","e","m"," ","7"," ","f","a","i","l","e","d"," ","(","T","i","m","e","o","u","t",")">>

\* the Timeout line is in o, and no download failure line with another
\* reason comes before it
TimeoutLineFirst(o) ==
    /\ Contains(o, TimeoutPhrase)
    /\ \A r \in DownloadReasons \ {ReasonTimeout} :
          Contains(o, DownloadFailureLine(<<"7">>, r)) =>
              FirstIndex(o, TimeoutPhrase) < FirstIndex(o, DownloadFailureLine(<<"7">>, r))

\* the attempt that finished was classified as the download failure "Timeout"
\* and is retried
TimeoutRetried ==
    /\ ~item.Success
    /\ item.ErrorMsg = PfxDownloadFailed \o ReasonTimeout
    /\ cerr # Nil
    /\ cerr.retryable
    /\ isRetryableError(ReasonTimeout)

\* C11 as stated: every output that contains the line ERROR! Download item 7
\* failed (Timeout) is classified as a download failure with the reason
\* "Timeout", which the retry policy deems retryable.
C11_TimeoutLineIsDownloadFailure ==
    (Decided /\ ~raw.execFailed /\ Contains(raw.output, TimeoutPhrase)) => TimeoutRetried

\* C11, amended: an output that contains the Timeout line is classified as a
\* download failure with the reason "Timeout", and is retryable, when it has no
\* success line and no download failure line before the Timeout line; with a
\* success line it is classified Success, and with an earlier download failure
\* line the reason is the one of that line.
C11_FirstDownloadFailureLine ==
    (Decided /\ ~raw.execFailed /\ Contains(raw.output, TimeoutPhrase)) =>
        IF HasSuccessLine(raw.output) THEN item.Success /\ cerr = Nil
        ELSE IF TimeoutLineFirst(raw.output) THEN TimeoutRetried
        ELSE /\ ~item.Success
             /\ cerr # Nil
             /\ cerr.retryable
             /\ \E r \in DownloadReasons \ {ReasonTimeout} :
                   /\ FirstIndex(raw.output, DownloadFailureLine(<<"7">>, r))
                        < FirstIndex(raw.output, TimeoutPhrase)
                   /\ item.ErrorMsg = PfxDownloadFailed \o r

\* an output whose only pattern line is the Timeout line was parsed, and the
\* call waits to retry
C11_Witness == Decided /\ ~raw.execFailed /\ raw.output = OutTimeout /\ pc = "sleep"

\* the keywords of the retry policy, as the claim lists them
Keywords ==
    { <<"t","i","m","e","o","u","t">>, <<"c","o","n","n","e","c","t","i","o","n">>, <<"n","e","t","w","o","r","k">>, <<"s","e","r","v","e","r">>, <<"u","n","a","v","a","i","l","a","b","l","e">>, <<"b","u","s","y">>,
      <<"r","a","t","e"," ","l","i","m","i","t">>, <<"t","h","r","o","t","t","l","e">>, <<"n","o"," ","c","o","n","n","e","c","t","i","o","n">>, <<"s","t","e","a","m"," ","s","e","r","v","e","r","s">>, <<"f","a","i","l","u","r","e">>,
      <<"f","a","i","l","e","d">>, <<"e","r","r","o","r">>, <<"t","e","m","p","o","r","a","r","y">>, <<"r","e","t","r","y">>, <<"p","l","e","a","s","e"," ","t","r","y">> }

C13_TestExpectations ==
    tested.called =>
        /\ tested.msg \in TestRetryable => tested.result
        /\ tested.msg \in TestNotRetryable => ~tested.result

\* the not-authenticated phrase, lower-cased
PhraseNotLoggedOn == <<"n","o","t"," ","l","o","g","g","e","d"," ","o","n">>

\* C14: an attempt whose captured output or log text contains "not logged on"
\* is fatal and ends the call, whether or not the process exited with a
\* failure status.
C14_NotLoggedOnIsFatal ==
    (Decided /\ (\/ Contains(ToLower(raw.output), PhraseNotLoggedOn)
                 \/ Contains(ToLower(raw.log), PhraseNotLoggedOn))) =>
        /\ cerr # Nil
        /\ ~cerr.retryable
        /\ Returned

\* the attempt that finished is retried while attempts remain
RetriedWhileAttemptsRemain ==
    /\ cerr # Nil
    /\ cerr.retryable
    /\ pc = "sleep" \/ retriesUsed = maxRetries

\* C15 as stated: in every mode an attempt whose process failed to run is
\* retried while attempts remain, unless the log read with it says "Not logged
\* on"; then, and only then, it is fatal.
C15_ExecFailureFatalOnlyNotLoggedOn ==
    (Decided /\ raw.execFailed) =>
        IF Contains(raw.log, LogNotLoggedOn)
        THEN cerr # Nil /\ ~cerr.retryable /\ Returned
        ELSE RetriedWhileAttemptsRemain

\* C15, amended: an attempt whose process failed to run is fatal when the
\* console log read with it contains "Not logged on", and also when the call
\* is DownloadWorkshopItemWithAuth without a guard code and that log contains
\* "steam_guard_code" or "Account Logon Denied"; in every other case it is
\* retried while attempts remain.
C15_ExecFailureFatalIffLogSaysSo ==
    (Decided /\ raw.execFailed) =>
        IF FatalRun
        THEN cerr # Nil /\ ~cerr.retryable /\ Returned /\ cerr.msg = FatalReason
        ELSE RetriedWhileAttemptsRemain

\* a failed run of DownloadWorkshopItemWithAuth without a guard code, with
\* "Account Logon Denied" and no "Not logged on" in the log, has ended the call
C15_Witness ==
    /\ Decided
    /\ raw.execFailed
    /\ fn = "DownloadWorkshopItemWithAuth"
    /\ guardCode = ""
    /\ Contains(raw.log, LogLogonDenied)
    /\ ~Contains(raw.log, LogNotLoggedOn)
    /\ Returned

\* the last attempt of the call in progress ended it: a success or a fatal error
LastOutcomeTerminal ==
    /\ outcomes # <<>>
    /\ outcomes[Len(outcomes)] \in {"success", "fatal"}

ErrCanceled == Errorf(<<"c","o","n","t","e","x","t"," ","c","a","n","c","e","l","e","d">>)

\* C18: once cancellation is signalled, before the first attempt or during a
\* delay, no further process is started and the call returns a cancellation
\* error.
C18_CancelStopsCall ==
    cancelRequested =>
        /\ pc # "running"
        /\ pc = "done" => err = ErrCanceled

\* C19: every process started within one download call has the same
\* argument vector.
C19_SameArgsEveryAttempt ==
    fn \in RetriedCalls =>
        /\ Cardinality(argvs) <= 1
        /\ invocations >= 1 => argvs = {args}

\* a call of DownloadWorkshopItem for a user returned after three or more runs
C19_Witness ==
    Returned /\ fn = "DownloadWorkshopItem" /\ username = "bob" /\ invocations >= 3

\* the words of an argument vector that start a SteamCMD command
CommandWords ==
    { "+@ShutdownOnFailedCommand", "+@NoPromptForPassword", "+login",
      "+set_steam_guard_code", "+workshop_download_item", "+quit" }

\* the operands of +login in the argument vector v
LoginOperands(v) ==
    LET i == CHOOSE k \in 1..Len(v) : v[k] = "+login"
        e == CHOOSE k \in (i + 1)..Len(v) :
                 v[k] \in CommandWords /\ \A j \in (i + 1)..(k - 1) : v[j] \notin CommandWords
    IN  SubSeq(v, i + 1, e - 1)

\* C20: a download command with --username and --password logs in with both;
\* with --username alone it logs in as that user (login <username>), never
\* anonymously; with neither it logs in anonymously.
C20_CredentialModes ==
    (flags.set /\ invocations >= 1 /\ ~(flags.username = "" /\ flags.password # "")) =>
        LoginOperands(args) =
            IF flags.username # "" /\ flags.password # ""
            THEN << flags.username, flags.password >>
            ELSE IF flags.username # "" THEN << flags.username >>
            ELSE << "anonymous" >>

\* ----------------------------------------------------- the download command

\* the download functions of both clients
DownloadCalls ==
    RetriedCalls \cup { "DownloadWorkshopItem(appID, workshopID)",
                        "DownloadWorkshopItemWithAuth(appID, workshopID, username, password)" }

\* C21: a download command given --password without --username fails with a
\* configuration error before any process is started.
C21_PasswordAloneIsConfigError ==
    (flags.set /\ flags.username = "" /\ flags.password # "") =>
        /\ invocations = 0
        /\ pc = "done"
        /\ cmdErr # Nil

\* the position of the word w in the argument vector v, 0 when it is absent
Pos(v, w) ==
    IF \E k \in 1..Len(v) : v[k] = w
    THEN CHOOSE k \in 1..Len(v) : v[k] = w /\ \A j \in 1..(k - 1) : v[j] # w
    ELSE 0

\* the argument vector v sets the SteamCMD variable named by the word w to 1
SetsToOne(v, w) == Pos(v, w) > 0 /\ Pos(v, w) < Len(v) /\ v[Pos(v, w) + 1] = "1"

\* C22: the argument vector of every download process, whether it logs in
\* anonymously, as a user with cached credentials or with a password, sets
\* both NoPromptForPassword and ShutdownOnFailedCommand to 1.
C22_EveryModeSetsBothFlags ==
    (pc = "running" /\ fn \in DownloadCalls) =>
        /\ SetsToOne(args, "+@NoPromptForPassword")
        /\ SetsToOne(args, "+@ShutdownOnFailedCommand")

\* the words of the argument vector v before position k are settings of
\* SteamCMD variables
OnlyFlagsBefore(v, k) ==
    \A j \in 1..(k - 1) :
        v[j] \in CommandWords => v[j] \in {"+@ShutdownOnFailedCommand", "+@NoPromptForPassword"}

\* C23: the argument vector of a download process holds, in this order, the
\* flags, the login, the guard code if and only if one was given, the
\* download of the item of the call and quit, which ends it.
C23_SubcommandOrder ==
    (pc = "running" /\ fn \in DownloadCalls) =>
        LET login == Pos(args, "+login")
            guard == Pos(args, "+set_steam_guard_code")
            download == Pos(args, "+workshop_download_item")
            quit == Pos(args, "+quit")
        IN  /\ login > 0
            /\ OnlyFlagsBefore(args, login)
            /\ (guard > 0) <=> (guardCode # "")
            /\ guard > 0 => /\ login < guard
                            /\ guard + 2 = download
                            /\ args[guard + 1] = guardCode
            /\ login < download
            /\ \A j \in (login + 1)..(download - 1) :
                  args[j] \in CommandWords => j = guard
            /\ args[download + 1] = item.AppID
            /\ args[download + 2] = item.WorkshopID
            /\ quit = download + 3
            /\ quit = Len(args)

\* the process of a retry of a login with a guard code is running
C23_Witness ==
    /\ pc = "running"
    /\ fn = "DownloadWorkshopItemWithAuth"
    /\ guardCode = "G1"
    /\ attemptCount >= 2

\* the processes of the call that were started and have not exited
InFlight == invocations - Len(outcomes)

\* C24: a download call has at most one process in flight; a process is in
\* flight only after every process before it exited and was classified as
\* retryable and one delay per earlier process elapsed.
C24_OneProcessInFlight ==
    fn \in RetriedCalls =>
        /\ InFlight \in {0, 1}
        /\ InFlight = 1 <=> pc = "running"
        /\ pc = "running" =>
              /\ Len(sleeps) = invocations - 1
              /\ \A i \in 1..(invocations - 1) : outcomes[i] = "retryable"
        /\ pc = "sleep" => Len(sleeps) = invocations - 1
        /\ pc = "attempt" => Len(sleeps) = invocations

\* the third process of a call is running
C24_Witness == fn \in RetriedCalls /\ pc = "running" /\ invocations = 3

\* C25: the decision of a download call on an attempt is the one it would
\* take had no other call run a process meanwhile.
C25_ConcurrentCallsIndependent ==
    Decided => cerr = Attempt(raw.execFailed, raw.output, aloneRead).err

\* ---------------------------------------------------------- InteractiveLogin

\* the output asks for a Steam Guard code
HasGuardIndicator(output) ==
    Contains(output, <<"s","t","e","a","m","_","g","u","a","r","d","_","c","o","d","e">>) \/ Contains(output, <<"P","l","e","a","s","e"," ","c","h","e","c","k"," ","y","o","u","r"," ","e","m","a","i","l">>)

\* the text before the first end of line of stdin, stdin itself when it has no
\* end of line
FirstLine(stdin) ==
    IF \E i \in 1..Len(stdin) : stdin[i] = "\n"
    THEN SubSeq(stdin, 1, FirstIndex(stdin, <<"\n">>) - 1)
    ELSE stdin

\* no code can be taken from stdin: it holds no complete line, or a line of
\* nothing but blanks
NoCodeIn(stdin) ==
    \/ ~ \E i \in 1..Len(stdin) : stdin[i] = "\n"
    \/ \A i \in 1..Len(FirstLine(stdin)) : FirstLine(stdin)[i] \in {" ", "\t", "\r"}

\* C26: InteractiveLogin starts one process or two; it starts the second only
\* after the output of the first asked for a Steam Guard code and a code was
\* read, and it returns when the second exits.
C26_AtMostTwoLogins ==
    fn = "InteractiveLogin" =>
        /\ invocations \in {1, 2}
        /\ invocations = 2 =>
              /\ phase1.done
              /\ HasGuardIndicator(phase1.output)
              /\ stdinRead.read
              /\ ~NoCodeIn(stdinRead.text)
              /\ guardCode # ""
              /\ args = << "+@ShutdownOnFailedCommand", "0", "+@NoPromptForPassword", "1",
                           "+login", username, password,
                           "+set_steam_guard_code", guardCode, "+quit" >>
              /\ pc \in {"guard", "done"}
        /\ pc = "guard" => invocations = 2
        /\ pc \in {"login", "prompt"} => invocations = 1
        /\ (pc = "done" /\ invocations = 2) =>
              (err = Nil <=> Contains(raw.output, <<"O","K">>))
        /\ pc \in {"login", "prompt", "guard", "done"}

\* InteractiveLogin returned the failure of its second login
C26_Witness ==
    fn = "InteractiveLogin" /\ pc = "done" /\ invocations = 2 /\ err # Nil

\* C27: when the first login asked for a Steam Guard code and no code can be
\* read, InteractiveLogin returns an error and starts no second process.
C27_NoCodeNoSecondLogin ==
    (fn = "InteractiveLogin" /\ stdinRead.read /\ NoCodeIn(stdinRead.text)) =>
        /\ HasGuardIndicator(phase1.output)
        /\ pc = "done"
        /\ err # Nil
        /\ invocations = 1

\* InteractiveLogin returned after reading a line of blanks
C27_Witness ==
    /\ fn = "InteractiveLogin"
    /\ pc = "done"
    /\ stdinRead = [read |-> TRUE, text |-> <<" "," ","\n">>]

\* the output InteractiveLogin classified names a failure of the login
HasFailureMarker(output) ==
    Contains(output, <<"F","A","I","L","E","D">>) \/ Contains(output, <<"L","o","g","o","n"," ","D","e","n","i","e","d">>)

\* InteractiveLogin returned what it made of the output of its last process
ReturnedClassified ==
    /\ fn = "InteractiveLogin"
    /\ pc = "done"
    /\ \/ invocations = 2
       \/ invocations = 1 /\ ~stdinRead.read

\* C28: InteractiveLogin returns an authentication failure, and never nil,
\* for a login whose output holds "FAILED" or "Logon Denied".
C28_FailureMarkerIsNeverSuccess ==
    (ReturnedClassified /\ HasFailureMarker(raw.output)) =>
        /\ err # Nil
        /\ err.msg \in {MsgAuthFailed, MsgAuthFailedGuard}

\* C29: the download command calls handleOutput only after its download
\* call returned no error and an item with Success set.
C29_RelocateOnlyAfterSuccess ==
    relocated =>
        /\ flags.set
        /\ pc = "done"
        /\ err = Nil
        /\ cmdErr = Nil
        /\ item.Success

\* the download command called handleOutput
C29_Witness == relocated /\ flags.extract /\ flags.output = "out"

\* ------------------------------------------------------------- the client

\* C30: while the SteamCMD executable is absent NewClient returns no client
\* and the error that says so, the download command returns that error, and
\* no process of a download or of a login has been started.
C30_NoProcessBeforeInstall ==
    ~installed =>
        /\ ~client.client
        /\ client # NoClient =>
              client.err.msg = <<"S","t","e","a","m","C","M","D"," ","n","o","t"," ","f","o","u","n","d"," ","a","t"," ","s","t","e","a","m","c","m","d","/","s","t","e","a","m","c","m","d",".","s","h","."," ","R","u","n"," ","'","i","n","s","t","a","l","l","'"," ","c","o","m","m","a","n","d"," ","f","i","r","s","t">>
        /\ invocations = 0
        /\ pc \in {"idle", "done"}
        /\ flags.set =>
              /\ pc = "done"
              /\ cmdErr # Nil
              /\ cmdErr.msg = <<"f","a","i","l","e","d"," ","t","o"," ","c","r","e","a","t","e"," ","S","t","e","a","m","C","M","D"," ","c","l","i","e","n","t",":"," ">> \o client.err.msg

\* the download command was run while the executable is absent
C30_Witness == ~installed /\ flags.set /\ client.err # Nil

\* ------------------------------------------------- retries, once more

C34_SleepsBetweenAttempts ==
    fn \in RetriedCalls =>
        /\ pc \in {"running", "sleep", "done"} => Len(sleeps) = invocations - 1
        /\ \A i \in 1..Len(sleeps) : outcomes[i] = "retryable"
        /\ pc = "sleep" =>
              /\ outcomes[Len(outcomes)] = "retryable"
              /\ Len(outcomes) <= maxRetries
        /\ pc = "done" => Len(outcomes) = Len(sleeps) + 1

\* a call ended by a fatal third attempt
C34_Witness ==
    Returned /\ invocations = 3 /\ outcomes[3] = "fatal" /\ Len(sleeps) = 2

GuardLogs ==
    { <<"s","t","e","a","m","_","g","u","a","r","d","_","c","o","d","e">> \o NL, <<"A","c","c","o","u","n","t"," ","L","o","g","o","n"," ","D","e","n","i","e","d">> \o NL,
      <<"N","o","t"," ","l","o","g","g","e","d"," ","o","n">> \o NL \o <<"s","t","e","a","m","_","g","u","a","r","d","_","c","o","d","e">> \o NL }

\* C36: in DownloadWorkshopItemWithAuth an attempt whose process failed and
\* whose log asks for a Steam Guard code ends the call with the error "Steam
\* Guard authentication required" when no guard code was given; with a guard
\* code given it is retried unless the log says "Not logged on".
C36_GuardRequiredIsFatal ==
    (Decided /\ fn = "DownloadWorkshopItemWithAuth" /\ raw.execFailed) =>
        /\ (Contains(raw.log, <<"s","t","e","a","m","_","g","u","a","r","d","_","c","o","d","e">>)
              \/ Contains(raw.log, <<"A","c","c","o","u","n","t"," ","L","o","g","o","n"," ","D","e","n","i","e","d">>)) =>
              IF guardCode = ""
              THEN /\ Returned
                   /\ err # Nil
                   /\ Contains(err.msg, <<"S","t","e","a","m"," ","G","u","a","r","d"," ","a","u","t","h","e","n","t","i","c","a","t","i","o","n"," ","r","e","q","u","i","r","e","d">>)
                   /\ outcomes[Len(outcomes)] = "fatal"
              ELSE Contains(raw.log, <<"N","o","t"," ","l","o","g","g","e","d"," ","o","n">>) \/ RetriedWhileAttemptsRemain
        /\ \A log \in GuardLogs :
              IF guardCode = ""
              THEN LET r == Attempt(TRUE, raw.output, log).err
                   IN  ~r.retryable /\ Contains(r.msg, <<"S","t","e","a","m"," ","G","u","a","r","d"," ","a","u","t","h","e","n","t","i","c","a","t","i","o","n"," ","r","e","q","u","i","r","e","d">>)
              ELSE Contains(log, <<"N","o","t"," ","l","o","g","g","e","d"," ","o","n">>)
                       \/ Attempt(TRUE, raw.output, log).err.retryable

\* a retry of a call with a guard code failed with "Account Logon Denied" in
\* the log and is followed by a delay
C36_Witness ==
    /\ Decided
    /\ fn = "DownloadWorkshopItemWithAuth"
    /\ raw.execFailed
    /\ guardCode = "G1"
    /\ Contains(raw.log, <<"A","c","c","o","u","n","t"," ","L","o","g","o","n"," ","D","e","n","i","e","d">>)
    /\ pc = "sleep"
    /\ attemptCount = 2

\* ------------------------------------------- InteractiveLogin, once more

\* the error InteractiveLogin returned reports that the process failed
ReportsExecutionFailure == err # Nil /\ Contains(err.msg, <<"S","t","e","a","m","C","M","D"," ","e","x","e","c","u","t","i","o","n"," ","f","a","i","l","e","d">>)

\* C38: InteractiveLogin reports a failed process only for the first login
\* and only when its output holds no request for a code, no "OK" and no
\* failure marker; an output with "OK" is a success whatever the exit
\* status, and a failure of the second process is never reported as one.
C38_ExecFailureReportedLast ==
    (fn = "InteractiveLogin" /\ pc = "done") =>
        /\ ReportsExecutionFailure <=>
              /\ invocations = 1
              /\ ~stdinRead.read
              /\ raw.execFailed
              /\ ~HasGuardIndicator(raw.output)
              /\ ~Contains(raw.output, <<"O","K">>)
              /\ ~HasFailureMarker(raw.output)
        /\ (ReturnedClassified /\ Contains(raw.output, <<"O","K">>)) => err = Nil
        /\ invocations = 2 => ~ReportsExecutionFailure

\* a first login whose process failed after printing "OK" returned nil
C38_Witness ==
    /\ ReturnedClassified
    /\ invocations = 1
    /\ raw.execFailed
    /\ raw.output = LoginOutOK
    /\ err = Nil

\* -------------------------------------------------- the persistent log

\* C37: the decision on an attempt whose process failed is the one the call
\* would take on a console log that holds nothing but what the process of
\* that attempt wrote.
C37_DecisionIgnoresEarlierLog ==
    (Decided /\ raw.execFailed) =>
        cerr = Attempt(raw.execFailed, raw.output, raw.own).err

\* ------------------------------------------------------ the clean command

\* the cache directories the last run of the clean command listed and found
ListedExisting ==
    existingPaths(GetWorkshopCachePaths(clean.dir, clean.fs), clean.fs)

\* the downloads and temp directories, local and system, that exist
ExistingCaches ==
    { Join(base, sub) :
        base \in { localWorkshopBase(clean.dir), systemSteamBase },
        sub \in { <<"d","o","w","n","l","o","a","d","s">>, <<"t","e","m","p">> } } \cap clean.fs

\* the local content directory
ContentDir == Join(localWorkshopBase(clean.dir), <<"c","o","n","t","e","n","t">>)

\* what the operator answered, lower-cased and trimmed
Answer == TrimSpace(ToLower(ReadString(clean.stdin).line))

\* the last command was a run of the clean command that got to its removal loop
RemovalProceeded ==
    /\ clean.ran
    /\ ListedExisting # <<>>
    /\ clean.force \/ (clean.result.err = Nil /\ Answer \in { <<"y">>, <<"y","e","s">> })

\* C31: a run of the clean command that gets to its removal loop removes
\* every existing downloads and temp directory it listed; it leaves the content
\* directory alone without --all and removes it with --all.
C31_ContentKeptCachesRemoved ==
    RemovalProceeded =>
        /\ ExistingCaches \subseteq clean.result.removed
        /\ ~clean.all => ContentDir \notin clean.result.removed
        /\ (clean.all /\ ContentDir \in clean.fs) => ContentDir \in clean.result.removed

\* C33: without --force an answer other than y or yes, in any case and with
\* any space around it, removes nothing; with --force the prompt is not read
\* and the removal loop runs over every directory listed and found.
C33_RemovalNeedsConfirmation ==
    clean.ran =>
        /\ (~clean.force /\ Answer \notin { <<"y">>, <<"y","e","s">> }) => clean.result.removed = {}
        /\ (~clean.force /\ ListedExisting # <<>>) => clean.result.prompted
        /\ clean.force =>
              /\ ~clean.result.prompted
              /\ clean.result.removed = RemovedPaths(ListedExisting, clean.all)

\* the operator answered "yeah" to the prompt of a run that had found the three
\* local directories, and nothing was removed
C33_Witness ==
    /\ clean.ran
    /\ ~clean.force
    /\ clean.result.prompted
    /\ clean.stdin = <<"y","e","a","h","\n">>
    /\ Len(ListedExisting) = 3
    /\ clean.result.removed = {}

====
